---- MODULE Spec2Model ----
(***************************************************************************)
(* Prepaid balance ledger of the topUp backend.                            *)
(*                                                                         *)
(* State: the customers table (shop_id, current_balance),                  *)
(* the transactions table (an ordered log of CHARGE / DEDUCT / CANCEL      *)
(* rows, with the cancelled mark of each row kept beside it in             *)
(* is_cancelled) and, per client, the ledger request it has in flight or   *)
(* the HTTP response it last received.                                     *)
(*                                                                         *)
(* Sessions: the tokens issued so far, the token_blacklist table of        *)
(* revoked jti, the clock (now), and per shop the PIN attempt state of the *)
(* shops table; pin_verified remembers the shops a verify_pin answered     *)
(* verified=true for.  The rate limits keep a bucket per client IP; the    *)
(* password reset keeps its code and attempt state in the reset_code       *)
(* columns of the shops table (reset_codes).                               *)
(*                                                                         *)
(* The routers in backend/app/routers are modelled from their source.  The *)
(* three database functions they call (charge_balance, deduct_balance,     *)
(* cancel_transaction) are SQL of the repository that is not among the     *)
(* source files; they are modelled from section 4.1 of the specification.  *)
(***************************************************************************)
EXTENDS Integers, Sequences, FiniteSets, TLC

VARIABLES customers, transactions, is_cancelled, calls,
          tokens, token_blacklist, now, shops, pin_verified,
          _login_attempts, _reset_request_attempts, admitted, login_streak,
          reset_codes, redeemed

vars == <<customers, transactions, is_cancelled, calls,
          tokens, token_blacklist, now, shops, pin_verified,
          _login_attempts, _reset_request_attempts, admitted, login_streak,
          reset_codes, redeemed>>

ledger_vars == <<customers, transactions, is_cancelled>>
token_vars == <<tokens, token_blacklist>>
pin_vars == <<shops, pin_verified>>
limit_vars == <<_login_attempts, _reset_request_attempts, admitted, login_streak>>
reset_vars == <<reset_codes, redeemed>>

(***************************************************************************)
(* Bounds of the model and the small input sets requests are drawn from.   *)
(***************************************************************************)
NProcs == 2
MaxTx == 3
MaxTokens == 3
MaxTime == 3
MaxCodes == 2

Procs == 1..NProcs
Shops == {1, 2}
CustomerIds == {1, 2}
Payments == {1, 2}
ServiceAmounts == {0, 1}
DeductAmounts == {1, 2}
ImportBalances == {0, 1}

(* None of the Python code: ids start at 1, so 0 is never an id. *)
None == 0

(***************************************************************************)
(* Rows and messages.                                                      *)
(***************************************************************************)
Customer(shop_id, current_balance) ==
    [shop_id |-> shop_id, current_balance |-> current_balance]

Transaction(customer_id, type, amount, original_transaction_id) ==
    [customer_id |-> customer_id, type |-> type, amount |-> amount,
     original_transaction_id |-> original_transaction_id]

(* A JWT: its claims, and whether its signature is the server's.  Tokens
   without a jti (verification, password_reset) or without a subject
   (verification) carry None there. *)
Token(sub, type, exp, jti) ==
    [sub |-> sub, type |-> type, exp |-> exp, jti |-> jti, signed |-> TRUE]

NoToken == [sub |-> None, type |-> "", exp |-> None, jti |-> None, signed |-> FALSE]

ChargeRequest(shop_id, customer_id, actual_payment, service_amount) ==
    [op |-> "charge", shop_id |-> shop_id, customer_id |-> customer_id,
     transaction_id |-> None, actual_payment |-> actual_payment,
     service_amount |-> service_amount, amount |-> None,
     credentials |-> NoToken]

DeductRequest(shop_id, customer_id, amount) ==
    [op |-> "deduct", shop_id |-> shop_id, customer_id |-> customer_id,
     transaction_id |-> None, actual_payment |-> None,
     service_amount |-> None, amount |-> amount, credentials |-> NoToken]

CancelRequest(shop_id, transaction_id) ==
    [op |-> "cancel", shop_id |-> shop_id, customer_id |-> None,
     transaction_id |-> transaction_id, actual_payment |-> None,
     service_amount |-> None, amount |-> None, credentials |-> NoToken]

NoRequest ==
    [op |-> "none", shop_id |-> None, customer_id |-> None,
     transaction_id |-> None, actual_payment |-> None,
     service_amount |-> None, amount |-> None, credentials |-> NoToken]

(* The PIN columns of a row of the shops table. *)
Shop(pin_hash, pin_failed_count, pin_locked_until) ==
    [pin_hash |-> pin_hash, pin_failed_count |-> pin_failed_count,
     pin_locked_until |-> pin_locked_until]

(* What a database function hands back to the router: its JSON, or nothing. *)
RpcNone ==
    [empty |-> TRUE, success |-> FALSE, error |-> "", transaction_id |-> None,
     customer_id |-> None, amount |-> None, new_balance |-> None,
     current_balance |-> None]

RpcError(error, current_balance) ==
    [empty |-> FALSE, success |-> FALSE, error |-> error,
     transaction_id |-> None, customer_id |-> None, amount |-> None,
     new_balance |-> None, current_balance |-> current_balance]

RpcSuccess(transaction_id, customer_id, amount, new_balance) ==
    [empty |-> FALSE, success |-> TRUE, error |-> "",
     transaction_id |-> transaction_id, customer_id |-> customer_id,
     amount |-> amount, new_balance |-> new_balance, current_balance |-> None]

RpcOutcome(cs, txs, result) ==
    [customers |-> cs, transactions |-> txs, result |-> result]

(* The HTTP answer of a ledger endpoint. *)
HTTPException(status_code, detail, current_balance) ==
    [status_code |-> status_code, detail |-> detail, id |-> None,
     customer_id |-> None, type |-> "", amount |-> None, new_balance |-> None,
     current_balance |-> current_balance]

TransactionResponse(id, customer_id, type, amount, new_balance) ==
    [status_code |-> 201, detail |-> "", id |-> id, customer_id |-> customer_id,
     type |-> type, amount |-> amount, new_balance |-> new_balance,
     current_balance |-> None]

NoResponse == HTTPException(0, "", None)

Idle == [state |-> "idle", request |-> NoRequest, response |-> NoResponse]
Pending(request) == [state |-> "pending", request |-> request, response |-> NoResponse]
Done(request, response) == [state |-> "done", request |-> request, response |-> response]

(***************************************************************************)
(* Reading the ledger.                                                     *)
(***************************************************************************)
(* Mutant: the test for an earlier CANCEL of the transaction is missing. *)
IsCancelled_never(txs, transaction_id) == FALSE

IsCancelled(txs, transaction_id) ==
    \E i \in 1..Len(txs) :
        /\ txs[i].type = "CANCEL"
        /\ txs[i].original_transaction_id = transaction_id

(* Mutant: the customer is looked up by id alone, whatever shop it is of. *)
OwnedBy_any_shop(cs, customer_id, shop_id) == customer_id \in DOMAIN cs

OwnedBy(cs, customer_id, shop_id) ==
    /\ customer_id \in DOMAIN cs
    /\ cs[customer_id].shop_id = shop_id

(***************************************************************************)
(* The database functions (specification section 4.1).  Each runs as one   *)
(* indivisible step of the store and returns the new tables with its JSON. *)
(***************************************************************************)
(* Mutant: the service amount is left out of the amount charged. *)
charge_total_payment_only(p_actual_payment, p_service_amount) == p_actual_payment

charge_total(p_actual_payment, p_service_amount) == p_actual_payment + p_service_amount

(* Mutant: the balance update selects the rows by shop and not by customer,
   so the charge is added to every customer of the shop. *)
charge_balance_whole_shop(cs, txs, p_customer_id, p_shop_id, p_actual_payment, p_service_amount) ==
    IF ~OwnedBy(cs, p_customer_id, p_shop_id)
    THEN RpcOutcome(cs, txs, RpcError("CUSTOMER_NOT_FOUND", None))
    ELSE LET total == charge_total(p_actual_payment, p_service_amount)
             new_balance == cs[p_customer_id].current_balance + total
         IN  RpcOutcome(
                 [c \in DOMAIN cs |->
                     IF cs[c].shop_id = p_shop_id
                     THEN Customer(cs[c].shop_id, cs[c].current_balance + total)
                     ELSE cs[c]],
                 Append(txs, Transaction(p_customer_id, "CHARGE", total, None)),
                 RpcSuccess(Len(txs) + 1, p_customer_id, total, new_balance))

charge_balance(cs, txs, p_customer_id, p_shop_id, p_actual_payment, p_service_amount) ==
    IF ~OwnedBy(cs, p_customer_id, p_shop_id)
    THEN RpcOutcome(cs, txs, RpcError("CUSTOMER_NOT_FOUND", None))
    ELSE LET total == charge_total(p_actual_payment, p_service_amount)
             new_balance == cs[p_customer_id].current_balance + total
         IN  RpcOutcome(
                 [cs EXCEPT ![p_customer_id].current_balance = new_balance],
                 Append(txs, Transaction(p_customer_id, "CHARGE", total, None)),
                 RpcSuccess(Len(txs) + 1, p_customer_id, total, new_balance))

deduct_balance(cs, txs, p_customer_id, p_shop_id, p_amount) ==
    IF ~OwnedBy(cs, p_customer_id, p_shop_id)
    THEN RpcOutcome(cs, txs, RpcError("CUSTOMER_NOT_FOUND", None))
    ELSE IF cs[p_customer_id].current_balance < p_amount
    THEN RpcOutcome(cs, txs,
             RpcError("INSUFFICIENT_BALANCE", cs[p_customer_id].current_balance))
    ELSE LET new_balance == cs[p_customer_id].current_balance - p_amount
         IN  RpcOutcome(
                 [cs EXCEPT ![p_customer_id].current_balance = new_balance],
                 Append(txs, Transaction(p_customer_id, "DEDUCT", p_amount, None)),
                 RpcSuccess(Len(txs) + 1, p_customer_id, p_amount, new_balance))

(* Mutant: cancelling a CANCEL row is not refused. *)
IsCancelRow_never(original) == FALSE

IsCancelRow(original) == original.type = "CANCEL"

(* Mutant: a CHARGE is reversed without looking at the balance. *)
CancelOverdraws_never(current_balance, original) == FALSE

CancelOverdraws(current_balance, original) ==
    /\ original.type = "CHARGE"
    /\ current_balance < original.amount

(* Mutant: every reversal takes the amount off the balance, whatever the kind
   of the original. *)
Reversed_always_down(current_balance, original) ==
    current_balance - original.amount

Reversed(current_balance, original) ==
    IF original.type = "CHARGE"
    THEN current_balance - original.amount
    ELSE current_balance + original.amount

cancel_transaction(cs, txs, p_transaction_id, p_shop_id) ==
    IF p_transaction_id \notin 1..Len(txs)
    THEN RpcOutcome(cs, txs, RpcError("TRANSACTION_NOT_FOUND", None))
    ELSE LET original == txs[p_transaction_id]
             customer_id == original.customer_id
         IN
         IF ~OwnedBy(cs, customer_id, p_shop_id)
         THEN RpcOutcome(cs, txs, RpcError("UNAUTHORIZED", None))
         ELSE IF IsCancelled(txs, p_transaction_id)
         THEN RpcOutcome(cs, txs, RpcError("ALREADY_CANCELLED", None))
         ELSE IF IsCancelRow(original)
         THEN RpcOutcome(cs, txs, RpcError("INVALID_CANCEL", None))
         ELSE IF CancelOverdraws(cs[customer_id].current_balance, original)
         THEN RpcOutcome(cs, txs, RpcError("INSUFFICIENT_BALANCE_FOR_CANCEL", None))
         ELSE LET new_balance == Reversed(cs[customer_id].current_balance, original)
              IN  RpcOutcome(
                      [cs EXCEPT ![customer_id].current_balance = new_balance],
                      Append(txs, Transaction(customer_id, "CANCEL",
                                              original.amount, p_transaction_id)),
                      RpcSuccess(Len(txs) + 1, customer_id, original.amount,
                                 new_balance))

(***************************************************************************)
(* db.rpc(...).execute() as the router sees it.  The store either runs the *)
(* function, or fails: the call raises an APIError that carries no JSON of *)
(* the function (_parse_rpc_error returns None) and nothing was written.   *)
(***************************************************************************)
StoreUnavailable(cs, txs) == RpcOutcome(cs, txs, RpcNone)

(***************************************************************************)
(* routers/transactions.py: from the function's JSON to the HTTP answer.   *)
(***************************************************************************)
(* Mutant: building the answer of a successful charge fails (a key the
   function does not return is read), so the caller gets a 500 for a charge
   that was written. *)
charge_response_keyerror(rpc_result) ==
    IF rpc_result.empty \/ rpc_result.success
    THEN HTTPException(500, "CHARGE_FAILED", None)
    ELSE IF rpc_result.error = "CUSTOMER_NOT_FOUND"
         THEN HTTPException(404, rpc_result.error, None)
         ELSE IF rpc_result.error = "UNAUTHORIZED"
         THEN HTTPException(403, rpc_result.error, None)
         ELSE HTTPException(400, rpc_result.error, None)

(* Mutant: the success flag is read under a wrong key, so every answer of the
   function, also a successful one, is reported as an error. *)
charge_response_wrong_key(rpc_result) ==
    IF rpc_result.empty
    THEN HTTPException(500, "CHARGE_FAILED", None)
    ELSE IF rpc_result.error = "CUSTOMER_NOT_FOUND"
         THEN HTTPException(404, rpc_result.error, None)
         ELSE IF rpc_result.error = "UNAUTHORIZED"
         THEN HTTPException(403, rpc_result.error, None)
         ELSE HTTPException(400, rpc_result.error, None)

charge_response(rpc_result) ==
    IF rpc_result.empty
    THEN HTTPException(500, "CHARGE_FAILED", None)
    ELSE IF ~rpc_result.success
    THEN IF rpc_result.error = "CUSTOMER_NOT_FOUND"
         THEN HTTPException(404, rpc_result.error, None)
         ELSE IF rpc_result.error = "UNAUTHORIZED"
         THEN HTTPException(403, rpc_result.error, None)
         ELSE HTTPException(400, rpc_result.error, None)
    ELSE TransactionResponse(rpc_result.transaction_id, rpc_result.customer_id,
                             "CHARGE", rpc_result.amount, rpc_result.new_balance)

(* Mutant: the error block is missing, so an answer that reports a failure is
   returned to the caller as a DEDUCT that took place. *)
deduct_response_unchecked(rpc_result) ==
    IF rpc_result.empty
    THEN HTTPException(500, "DEDUCT_FAILED", None)
    ELSE TransactionResponse(rpc_result.transaction_id, rpc_result.customer_id,
                             "DEDUCT", rpc_result.amount, rpc_result.new_balance)

deduct_response(rpc_result) ==
    IF rpc_result.empty
    THEN HTTPException(500, "DEDUCT_FAILED", None)
    ELSE IF ~rpc_result.success
    THEN IF rpc_result.error = "CUSTOMER_NOT_FOUND"
         THEN HTTPException(404, rpc_result.error, None)
         ELSE IF rpc_result.error = "UNAUTHORIZED"
         THEN HTTPException(403, rpc_result.error, None)
         ELSE IF rpc_result.error = "INSUFFICIENT_BALANCE"
         THEN HTTPException(400, rpc_result.error, rpc_result.current_balance)
         ELSE HTTPException(400, rpc_result.error, None)
    ELSE TransactionResponse(rpc_result.transaction_id, rpc_result.customer_id,
                             "DEDUCT", rpc_result.amount, rpc_result.new_balance)

(* Mutant: the error block is missing, so an answer that reports a failure is
   returned to the caller as a CANCEL that took place. *)
cancel_response_unchecked(rpc_result) ==
    IF rpc_result.empty
    THEN HTTPException(500, "CANCEL_FAILED", None)
    ELSE TransactionResponse(rpc_result.transaction_id, rpc_result.customer_id,
                             "CANCEL", rpc_result.amount, rpc_result.new_balance)

cancel_response(rpc_result) ==
    IF rpc_result.empty
    THEN HTTPException(500, "CANCEL_FAILED", None)
    ELSE IF ~rpc_result.success
    THEN IF rpc_result.error = "TRANSACTION_NOT_FOUND"
         THEN HTTPException(404, rpc_result.error, None)
         ELSE IF rpc_result.error = "UNAUTHORIZED"
         THEN HTTPException(403, rpc_result.error, None)
         ELSE HTTPException(400, rpc_result.error, None)
    ELSE TransactionResponse(rpc_result.transaction_id, rpc_result.customer_id,
                             "CANCEL", rpc_result.amount, rpc_result.new_balance)

(***************************************************************************)
(* The ledger endpoints.  A handler makes one call to the store and maps   *)
(* its answer; store_ok = FALSE is the call failing.                       *)
(***************************************************************************)
(* What a ledger call does to the cancelled marks of the rows: a row is
   written unmarked, and a cancel marks the row it cancels.  The listing
   endpoint returns the mark with each row (is_cancelled, default False), and
   the reconciliation test reads it from the note of the original CHARGE or
   DEDUCT row ("[취소됨]"). *)
mark_cancelled(marks, request, rpc_result) ==
    IF rpc_result.empty \/ ~rpc_result.success
    THEN marks
    ELSE IF request.op = "cancel"
         THEN Append([marks EXCEPT ![request.transaction_id] = TRUE], FALSE)
         ELSE Append(marks, FALSE)

Finish(p, request, out, response) ==
    /\ customers' = out.customers
    /\ transactions' = out.transactions
    /\ is_cancelled' = mark_cancelled(is_cancelled, request, out.result)
    /\ UNCHANGED <<reset_vars, limit_vars, token_vars, now, pin_vars>>
    /\ calls' = [calls EXCEPT ![p] = Done(request, response)]

charge(p, request, store_ok) ==
    /\ request.op = "charge"
    /\ LET out == IF store_ok
                  THEN charge_balance(customers, transactions,
                           request.customer_id, request.shop_id,
                           request.actual_payment, request.service_amount)
                  ELSE StoreUnavailable(customers, transactions)
       IN  Finish(p, request, out, charge_response(out.result))

deduct(p, request, store_ok) ==
    /\ request.op = "deduct"
    /\ LET out == IF store_ok
                  THEN deduct_balance(customers, transactions,
                           request.customer_id, request.shop_id, request.amount)
                  ELSE StoreUnavailable(customers, transactions)
       IN  Finish(p, request, out, deduct_response(out.result))

cancel(p, request, store_ok) ==
    /\ request.op = "cancel"
    /\ LET out == IF store_ok
                  THEN cancel_transaction(customers, transactions,
                           request.transaction_id, request.shop_id)
                  ELSE StoreUnavailable(customers, transactions)
       IN  Finish(p, request, out, cancel_response(out.result))

(***************************************************************************)
(* routers/customers.py and routers/onboarding.py: the operations on the   *)
(* customers table outside the ledger.  Names and phone numbers are not    *)
(* tracked: whether a submitted customer duplicates an existing one is an  *)
(* input (duplicate), and a request that only touches the name or phone    *)
(* leaves the tracked state as it is.                                      *)
(***************************************************************************)
NewCustomerId(cs) == Cardinality(DOMAIN cs) + 1

create_customer(shop_id, duplicate) ==
    /\ NewCustomerId(customers) \in CustomerIds
    /\ customers' =
           IF duplicate
           THEN customers
           ELSE (NewCustomerId(customers) :> Customer(shop_id, 0)) @@ customers
    /\ UNCHANGED <<reset_vars, limit_vars, transactions, is_cancelled, calls, token_vars, now, pin_vars>>

(* The loop of import_customers: the rows that are neither an existing
   customer of the shop nor a repeat of an earlier row of the file. *)
RECURSIVE customers_to_insert(_, _, _)
customers_to_insert(shop_id, rows, acc) ==
    IF rows = <<>>
    THEN acc
    ELSE LET customer == Head(rows)
         IN  customers_to_insert(shop_id, Tail(rows),
                 IF customer.duplicate
                 THEN acc
                 ELSE Append(acc, Customer(shop_id, customer.balance)))

RECURSIVE insert_customers(_, _)
insert_customers(cs, rows) ==
    IF rows = <<>>
    THEN cs
    ELSE insert_customers((NewCustomerId(cs) :> Head(rows)) @@ cs, Tail(rows))

CustomerImportRow == [duplicate : BOOLEAN, balance : ImportBalances]

CustomerImportRequest ==
    {<<r>> : r \in CustomerImportRow}
        \cup {<<r1, r2>> : r1 \in CustomerImportRow, r2 \in CustomerImportRow}

import_customers(shop_id, data) ==
    LET rows == customers_to_insert(shop_id, data, <<>>)
    IN  /\ Cardinality(DOMAIN customers) + Len(rows) <= Cardinality(CustomerIds)
        /\ customers' = insert_customers(customers, rows)
        /\ UNCHANGED <<reset_vars, limit_vars, transactions, is_cancelled, calls, token_vars, now, pin_vars>>

onboarding_import_customers(shop_id, data) ==
    LET rows == customers_to_insert(shop_id, data, <<>>)
    IN  /\ Cardinality(DOMAIN customers) + Len(rows) <= Cardinality(CustomerIds)
        /\ customers' = insert_customers(customers, rows)
        /\ UNCHANGED <<reset_vars, limit_vars, transactions, is_cancelled, calls, token_vars, now, pin_vars>>

update_customer(shop_id, customer_id) ==
    /\ OwnedBy(customers, customer_id, shop_id)
    /\ UNCHANGED <<reset_vars, limit_vars, ledger_vars, calls, token_vars, now, pin_vars>>

(***************************************************************************)
(* services/auth_service.py: the tokens.  Time is counted in units of the  *)
(* shortest validity; a token is accepted by jwt.decode while exp >= now.  *)
(***************************************************************************)
access_token_expire_minutes == 1
refresh_token_expire_days == 2
VERIFICATION_TOKEN_EXPIRE_MINUTES == 1
reset_token_expire_minutes == 1

(* uuid4: a jti no token issued so far carries. *)
NewJti(issued) == Len(issued) + 1

create_access_token(shop_id, jti) ==
    Token(shop_id, "access", now + access_token_expire_minutes, jti)

create_refresh_token(shop_id, jti) ==
    Token(shop_id, "refresh", now + refresh_token_expire_days, jti)

create_verification_token ==
    Token(None, "verification", now + VERIFICATION_TOKEN_EXPIRE_MINUTES, None)

_create_reset_token(shop_id) ==
    Token(shop_id, "password_reset", now + reset_token_expire_minutes, None)

(* jwt.decode: the signature and the expiry are checked; a failure raises
   JWTError. *)
jwt_decode(token) == token.signed /\ token.exp >= now

(* Mutant: a failed lookup counts the token as revoked. *)
_is_token_blacklisted_fail_closed(jti, lookup_ok) ==
    IF lookup_ok THEN jti \in token_blacklist ELSE TRUE

(* A failed lookup (lookup_ok = FALSE) is caught and answered False. *)
_is_token_blacklisted(jti, lookup_ok) ==
    IF lookup_ok THEN jti \in token_blacklist ELSE FALSE

verify_token(token, token_type, lookup_ok) ==
    IF ~jwt_decode(token)
    THEN None
    ELSE IF token.sub = None \/ token.type # token_type
    THEN None
    ELSE IF token.jti # None /\ _is_token_blacklisted(token.jti, lookup_ok)
    THEN None
    ELSE token.sub

get_token_payload(token) == IF jwt_decode(token) THEN token ELSE NoToken

(* Mutant: the jti of every token of the account is revoked with it. *)
blacklist_token_whole_account(jti, insert_ok) ==
    IF insert_ok
    THEN token_blacklist \cup
         {tokens[i].jti : i \in {k \in DOMAIN tokens :
              /\ tokens[k].jti # None
              /\ \E j \in DOMAIN tokens :
                     tokens[j].jti = jti /\ tokens[j].sub = tokens[k].sub}}
    ELSE token_blacklist

(* A failed insert (insert_ok = FALSE) is caught: nothing is written. *)
blacklist_token(jti, insert_ok) ==
    IF insert_ok THEN token_blacklist \cup {jti} ELSE token_blacklist

(* routers/auth.py: the dependency of every endpoint that needs a session;
   None stands for the 401 it raises. *)
get_current_shop(token, lookup_ok) == verify_token(token, "access", lookup_ok)

AuthRequest(op, token) == [NoRequest EXCEPT !.op = op, !.credentials = token]

Unauthorized == HTTPException(401, "INVALID_TOKEN", None)

(* The 200 answer of login and refresh: id is the jti of the access token
   it carries. *)
TokenResponse(jti) == [NoResponse EXCEPT !.status_code = 200, !.id = jti]

MessageResponse == [NoResponse EXCEPT !.status_code = 200]

Answer(p, request, response) ==
    calls' = [calls EXCEPT ![p] = Done(request, response)]

login(p, shop_id, password_ok) ==
    /\ Len(tokens) + 2 <= MaxTokens
    /\ IF password_ok
       THEN /\ tokens' = tokens \o << create_access_token(shop_id, NewJti(tokens)),
                                      create_refresh_token(shop_id, NewJti(tokens) + 1) >>
            /\ Answer(p, AuthRequest("login", NoToken), TokenResponse(NewJti(tokens)))
       ELSE /\ tokens' = tokens
            /\ Answer(p, AuthRequest("login", NoToken), Unauthorized)
    /\ UNCHANGED <<reset_vars, limit_vars, ledger_vars, token_blacklist, now, pin_vars>>

refresh_access_token(refresh_token, lookup_ok) ==
    LET shop_id == verify_token(refresh_token, "refresh", lookup_ok)
    IN  IF shop_id = None
        THEN NoToken
        ELSE create_access_token(shop_id, NewJti(tokens))

refresh_token(p, token, lookup_ok) ==
    /\ Len(tokens) < MaxTokens
    /\ LET result == refresh_access_token(token, lookup_ok)
       IN  IF result = NoToken
           THEN /\ tokens' = tokens
                /\ Answer(p, AuthRequest("refresh", token), Unauthorized)
           ELSE /\ tokens' = Append(tokens, result)
                /\ Answer(p, AuthRequest("refresh", token), TokenResponse(result.jti))
    /\ UNCHANGED <<reset_vars, limit_vars, ledger_vars, token_blacklist, now, pin_vars>>

logout(p, token, insert_ok) ==
    /\ LET payload == get_token_payload(token)
       IN  token_blacklist' =
               IF payload # NoToken /\ payload.jti # None /\ payload.sub # None
               THEN blacklist_token(payload.jti, insert_ok)
               ELSE token_blacklist
    /\ Answer(p, AuthRequest("logout", token), MessageResponse)
    /\ UNCHANGED <<reset_vars, limit_vars, ledger_vars, tokens, now, pin_vars>>

(* The endpoints that hand out the other kinds of token, as far as the
   token goes. *)
nice_auth_complete(p) ==
    /\ Len(tokens) < MaxTokens
    /\ tokens' = Append(tokens, create_verification_token)
    /\ Answer(p, AuthRequest("nice_auth_complete", NoToken), MessageResponse)
    /\ UNCHANGED <<reset_vars, limit_vars, ledger_vars, token_blacklist, now, pin_vars>>

verify_reset_code(p, shop_id) ==
    /\ Len(tokens) < MaxTokens
    /\ tokens' = Append(tokens, _create_reset_token(shop_id))
    /\ Answer(p, AuthRequest("verify_reset_code", NoToken), MessageResponse)
    /\ UNCHANGED <<reset_vars, limit_vars, ledger_vars, token_blacklist, now, pin_vars>>

(* A ledger endpoint with its dependency: get_current_shop runs first and
   gives the handler its shop_id. *)
Rejected(p, request) ==
    /\ Answer(p, request, Unauthorized)
    /\ UNCHANGED <<reset_vars, limit_vars, ledger_vars, token_vars, now, pin_vars>>

charge_endpoint(p, token, request, lookup_ok) ==
    LET shop_id == get_current_shop(token, lookup_ok)
        sent == [request EXCEPT !.credentials = token]
    IN  /\ request.op = "charge"
        /\ IF shop_id = None
           THEN Rejected(p, sent)
           ELSE charge(p, [sent EXCEPT !.shop_id = shop_id], TRUE)

deduct_endpoint(p, token, request, lookup_ok) ==
    LET shop_id == get_current_shop(token, lookup_ok)
        sent == [request EXCEPT !.credentials = token]
    IN  /\ request.op = "deduct"
        /\ IF shop_id = None
           THEN Rejected(p, sent)
           ELSE deduct(p, [sent EXCEPT !.shop_id = shop_id], TRUE)

cancel_endpoint(p, token, request, lookup_ok) ==
    LET shop_id == get_current_shop(token, lookup_ok)
        sent == [request EXCEPT !.credentials = token]
    IN  /\ request.op = "cancel"
        /\ IF shop_id = None
           THEN Rejected(p, sent)
           ELSE cancel(p, [sent EXCEPT !.shop_id = shop_id], TRUE)

(***************************************************************************)
(* services/pin_service.py and POST /api/auth/pin/verify.  The database    *)
(* function verify_and_update_pin_attempt is modelled from section 4.4 of  *)
(* the specification.                                                      *)
(***************************************************************************)
MAX_FAILED_ATTEMPTS == 5
LOCK_DURATION_MINUTES == 1

(* The PINs a caller may type, and the one every shop starts with. *)
Pins == {1, 2}
InitialPin == CHOOSE pin \in Pins : \A other \in Pins : pin <= other

(* bcrypt: the hash names the PIN it was made from and nothing gives the PIN
   back; the salt does not change what checkpw answers and is left out. *)
hash_pin(pin) == [bcrypt |-> pin]

verify_pin_hash(plain_pin, hashed_pin) ==
    /\ hashed_pin.bcrypt # None
    /\ hashed_pin.bcrypt = plain_pin

(* Mutant: a lock is taken to hold whatever the time. *)
Locked_whatever_the_time(shop) == shop.pin_locked_until # None

Locked(shop) == shop.pin_locked_until # None /\ now < shop.pin_locked_until

PinOutcome(shop, verified, remaining_attempts, locked_until) ==
    [shop |-> shop, verified |-> verified, remaining_attempts |-> remaining_attempts,
     locked_until |-> locked_until]

(* Mutant: the function relies on the caller's early test and does not look
   at the lock again. *)
verify_and_update_pin_attempt_no_recheck(shop, p_success) ==
    IF p_success
    THEN PinOutcome(Shop(shop.pin_hash, 0, None), TRUE, MAX_FAILED_ATTEMPTS, None)
    ELSE IF shop.pin_failed_count + 1 >= MAX_FAILED_ATTEMPTS
    THEN PinOutcome(Shop(shop.pin_hash, shop.pin_failed_count + 1,
                         now + LOCK_DURATION_MINUTES),
                    FALSE, 0, now + LOCK_DURATION_MINUTES)
    ELSE PinOutcome(Shop(shop.pin_hash, shop.pin_failed_count + 1, None), FALSE,
                    MAX_FAILED_ATTEMPTS - (shop.pin_failed_count + 1), None)

(* Mutant: the lock is set one failure late (the count is compared with >
   where >= is meant). *)
verify_and_update_pin_attempt_late(shop, p_success) ==
    IF Locked(shop)
    THEN PinOutcome(shop, FALSE, 0, shop.pin_locked_until)
    ELSE IF p_success
    THEN PinOutcome(Shop(shop.pin_hash, 0, None), TRUE, MAX_FAILED_ATTEMPTS, None)
    ELSE IF shop.pin_failed_count + 1 > MAX_FAILED_ATTEMPTS
    THEN PinOutcome(Shop(shop.pin_hash, shop.pin_failed_count + 1,
                         now + LOCK_DURATION_MINUTES),
                    FALSE, 0, now + LOCK_DURATION_MINUTES)
    ELSE PinOutcome(Shop(shop.pin_hash, shop.pin_failed_count + 1, None), FALSE,
                    MAX_FAILED_ATTEMPTS - (shop.pin_failed_count + 1), None)

verify_and_update_pin_attempt(shop, p_success) ==
    IF Locked(shop)
    THEN PinOutcome(shop, FALSE, 0, shop.pin_locked_until)
    ELSE IF p_success
    THEN PinOutcome(Shop(shop.pin_hash, 0, None), TRUE, MAX_FAILED_ATTEMPTS, None)
    ELSE IF shop.pin_failed_count + 1 >= MAX_FAILED_ATTEMPTS
    THEN PinOutcome(Shop(shop.pin_hash, shop.pin_failed_count + 1,
                         now + LOCK_DURATION_MINUTES),
                    FALSE, 0, now + LOCK_DURATION_MINUTES)
    ELSE PinOutcome(Shop(shop.pin_hash, shop.pin_failed_count + 1, None), FALSE,
                    MAX_FAILED_ATTEMPTS - (shop.pin_failed_count + 1), None)

(* verify_pin from the call of the database function on (lines 61-95): the
   function is told whether the PIN matched and its JSON is turned into the
   triple verify_pin returns. *)
verify_pin_rpc(shop, pin_correct) ==
    LET result_data == verify_and_update_pin_attempt(shop, pin_correct)
    IN  IF pin_correct /\ result_data.verified
        THEN PinOutcome(result_data.shop, TRUE, MAX_FAILED_ATTEMPTS, None)
        ELSE PinOutcome(result_data.shop, FALSE, result_data.remaining_attempts,
                        result_data.locked_until)

(* verify_pin with nothing else running between its select and its call of
   the database function. *)
PinService_verify_pin(shop, pin_correct) ==
    IF Locked(shop)
    THEN PinOutcome(shop, FALSE, 0, shop.pin_locked_until)
    ELSE verify_pin_rpc(shop, pin_correct)

PinVerifyResponse(verified, remaining_attempts, locked_until) ==
    [status_code |-> 200, detail |-> "", id |-> None, customer_id |-> None,
     type |-> "", amount |-> None, new_balance |-> None, current_balance |-> None,
     verified |-> verified, remaining_attempts |-> remaining_attempts,
     locked_until |-> locked_until]

verify_pin(p, shop_id, pin_correct) ==
    LET out == PinService_verify_pin(shops[shop_id], pin_correct)
    IN  /\ shops' = [shops EXCEPT ![shop_id] = out.shop]
        /\ pin_verified' = IF out.verified THEN pin_verified \cup {shop_id} ELSE pin_verified
        /\ Answer(p, [AuthRequest("verify_pin", NoToken) EXCEPT !.shop_id = shop_id],
                  PinVerifyResponse(out.verified, out.remaining_attempts, out.locked_until))
        /\ UNCHANGED <<reset_vars, limit_vars, ledger_vars, token_vars, now>>

(***************************************************************************)
(* PinService step by step, for callers that overlap.  verify_pin selects  *)
(* the shop's row and compares the PIN in Python (lines 45-59), and only   *)
(* then calls the database function (lines 61-95); change_pin runs         *)
(* verify_pin and then updates pin_hash (lines 97-111); reset_pin is one   *)
(* update (lines 113-123).  A call in flight keeps what it has read in its *)
(* request.  The shops table is in the database all server processes      *)
(* share (the application is also deployed as serverless functions,        *)
(* api/index.py), so the calls of two requests can fall between the select *)
(* and the database function of a third.                                   *)
(***************************************************************************)
PinVerifyRequest(shop_id, pin) ==
    [op |-> "verify_pin", shop_id |-> shop_id, pin |-> pin, new_pin |-> None,
     pin_correct |-> FALSE]

PinChangeRequest(shop_id, current_pin, new_pin) ==
    [op |-> "change_pin", shop_id |-> shop_id, pin |-> current_pin,
     new_pin |-> new_pin, pin_correct |-> FALSE]

PinResetRequest(shop_id, pin) ==
    [op |-> "reset_pin", shop_id |-> shop_id, pin |-> None, new_pin |-> pin,
     pin_correct |-> FALSE]

Verified(request) == [state |-> "verified", request |-> request, response |-> NoResponse]

(* A client is free to call when it has no call in flight. *)
Free(p) == calls[p].state \in {"idle", "done"}

(* What the endpoint answers once verify_pin has returned not verified:
   verify_pin reports the triple, change_pin refuses with 400. *)
pin_refused(request, remaining_attempts, locked_until) ==
    IF request.op = "verify_pin"
    THEN PinVerifyResponse(FALSE, remaining_attempts, locked_until)
    ELSE HTTPException(400, "PIN_MISMATCH", None)

(* Mutant: the early test of the lock is missing and a locked account is
   answered like one that has 0 attempts left and no lock. *)
pin_select_lock_unreported(p, request) ==
    LET shop == shops[request.shop_id]
    IN  /\ Free(p)
        /\ request.op \in {"verify_pin", "change_pin"}
        /\ IF Locked(shop)
           THEN Answer(p, request, pin_refused(request, 0, None))
           ELSE calls' = [calls EXCEPT ![p] = Pending(
                    [request EXCEPT
                        !.pin_correct = verify_pin_hash(request.pin, shop.pin_hash)])]
        /\ UNCHANGED <<reset_vars, limit_vars, ledger_vars, token_vars, now, pin_vars>>

pin_select(p, request) ==
    LET shop == shops[request.shop_id]
    IN  /\ Free(p)
        /\ request.op \in {"verify_pin", "change_pin"}
        /\ IF Locked(shop)
           THEN Answer(p, request, pin_refused(request, 0, shop.pin_locked_until))
           ELSE calls' = [calls EXCEPT ![p] = Pending(
                    [request EXCEPT
                        !.pin_correct = verify_pin_hash(request.pin, shop.pin_hash)])]
        /\ UNCHANGED <<reset_vars, limit_vars, ledger_vars, token_vars, now, pin_vars>>

(* Mutant: change_pin stores the new hash whatever verify_pin returned. *)
change_pin_proceeds_unverified(verified) == TRUE

(* change_pin, lines 100-102: whether it goes on to store the new hash. *)
change_pin_proceeds(verified) == verified

pin_rpc(p) ==
    LET request == calls[p].request
        out == verify_pin_rpc(shops[request.shop_id], request.pin_correct)
    IN  /\ calls[p].state = "pending"
        /\ request.op \in {"verify_pin", "change_pin"}
        /\ shops' = [shops EXCEPT ![request.shop_id] = out.shop]
        /\ pin_verified' = IF out.verified /\ request.op = "verify_pin"
                           THEN pin_verified \cup {request.shop_id}
                           ELSE pin_verified
        /\ calls' = [calls EXCEPT ![p] =
               IF request.op = "change_pin" /\ change_pin_proceeds(out.verified)
               THEN Verified(request)
               ELSE IF out.verified
               THEN Done(request, PinVerifyResponse(TRUE, out.remaining_attempts,
                                                    out.locked_until))
               ELSE Done(request, pin_refused(request, out.remaining_attempts,
                                              out.locked_until))]
        /\ UNCHANGED <<reset_vars, limit_vars, ledger_vars, token_vars, now>>

(* change_pin from the return of its verify_pin on. *)
change_pin_update(p) ==
    LET request == calls[p].request
    IN  /\ calls[p].state = "verified"
        /\ shops' = [shops EXCEPT ![request.shop_id].pin_hash = hash_pin(request.new_pin)]
        /\ Answer(p, request, MessageResponse)
        /\ UNCHANGED <<reset_vars, limit_vars, ledger_vars, token_vars, now, pin_verified>>

(* Mutant: the reset stores the new hash and leaves the attempt state. *)
reset_pin_update_hash_only(shop, new_pin) == [shop EXCEPT !.pin_hash = hash_pin(new_pin)]

(* The update of reset_pin (lines 115-121). *)
reset_pin_update(shop, new_pin) == Shop(hash_pin(new_pin), 0, None)

reset_pin(p, shop_id, new_pin) ==
    /\ Free(p)
    /\ shops' = [shops EXCEPT ![shop_id] = reset_pin_update(shops[shop_id], new_pin)]
    /\ Answer(p, PinResetRequest(shop_id, new_pin), MessageResponse)
    /\ UNCHANGED <<reset_vars, limit_vars, ledger_vars, token_vars, now, pin_verified>>

(***************************************************************************)
(* The rate limits of routers/auth.py.  A bucket is the pair (attempts,     *)
(* time of the first attempt) the code keeps per client IP in a dict of    *)
(* the process; an IP the dict has not seen has (0, datetime.min).  The    *)
(* handlers are coroutines of one event loop and do not suspend between    *)
(* their test of the bucket and their update of it (AuthService.login      *)
(* awaits nothing), so each runs as one step.  admitted is the record the  *)
(* properties are stated on: per bucket and IP, the times of the attempts  *)
(* that were counted (a failed login, a reset request let through), as far *)
(* back as one window; login_streak is, per IP, the number of logins       *)
(* answered 401 since the last one answered 200 (counted up to the limit)  *)
(* and the count that login found in the bucket.                           *)
(***************************************************************************)
ClientIps == {1, 2}

(* datetime.min: the year 1, in units of the clock before its start. *)
_datetime_min_utc == 0 - 1000000

login_rate_limit_minutes == 2
login_rate_limit_attempts == 5
reset_limit_window == 2
reset_max_attempts == 3

(* The record of counted attempts with one more at now; times a window or
   more before now are dropped. *)
Admit(times, window) ==
    Append(SelectSeq(times, LAMBDA t : now - t < window), now)

RateOutcome(bucket, is_allowed, remaining, reset_time) ==
    [bucket |-> bucket, is_allowed |-> is_allowed, remaining |-> remaining,
     reset_time |-> reset_time]

(* Mutant: the bucket is full only once it holds more than max_attempts. *)
_check_rate_limit_one_more(bucket) ==
    LET attempts == bucket[1]
        first_attempt_time == bucket[2]
    IN  IF now - first_attempt_time > login_rate_limit_minutes
        THEN RateOutcome(<<0, _datetime_min_utc>>, TRUE, login_rate_limit_attempts,
                         now + login_rate_limit_minutes)
        ELSE IF attempts > login_rate_limit_attempts
        THEN RateOutcome(bucket, FALSE, 0, first_attempt_time + login_rate_limit_minutes)
        ELSE RateOutcome(bucket, TRUE, login_rate_limit_attempts - attempts,
                         first_attempt_time + login_rate_limit_minutes)

_check_rate_limit(bucket) ==
    LET attempts == bucket[1]
        first_attempt_time == bucket[2]
    IN  IF now - first_attempt_time > login_rate_limit_minutes
        THEN RateOutcome(<<0, _datetime_min_utc>>, TRUE, login_rate_limit_attempts,
                         now + login_rate_limit_minutes)
        ELSE IF attempts >= login_rate_limit_attempts
        THEN RateOutcome(bucket, FALSE, 0, first_attempt_time + login_rate_limit_minutes)
        ELSE RateOutcome(bucket, TRUE, login_rate_limit_attempts - attempts,
                         first_attempt_time + login_rate_limit_minutes)

(* Mutant: a successful login leaves the bucket as it found it. *)
_record_login_attempt_keeps_count(bucket, success) ==
    IF success
    THEN bucket
    ELSE <<bucket[1] + 1, IF bucket[2] = _datetime_min_utc THEN now ELSE bucket[2]>>

_record_login_attempt(bucket, success) ==
    IF success
    THEN <<0, _datetime_min_utc>>
    ELSE <<bucket[1] + 1, IF bucket[2] = _datetime_min_utc THEN now ELSE bucket[2]>>

_check_reset_rate_limit(bucket) ==
    LET attempts == bucket[1]
        first_attempt_time == bucket[2]
    IN  IF now - first_attempt_time > reset_limit_window
        THEN RateOutcome(<<1, now>>, TRUE, reset_max_attempts - 1, None)
        ELSE IF attempts >= reset_max_attempts
        THEN RateOutcome(bucket, FALSE, 0, None)
        ELSE RateOutcome(<<attempts + 1, first_attempt_time>>, TRUE,
                         reset_max_attempts - attempts - 1, None)

Streak(forgiven, failed) == [forgiven |-> forgiven, failed |-> failed]

LoginRequest(client_ip, shop_id) ==
    [op |-> "login", client_ip |-> client_ip, shop_id |-> shop_id]

PasswordResetRequest(client_ip, email) ==
    [op |-> "request_password_reset", client_ip |-> client_ip, shop_id |-> None,
     email |-> email]

(* 429, with the reset time the test of the bucket handed back and the
   Retry-After header made from it; the reset endpoints hand back no time. *)
TooManyRequests(reset_time, seconds_until_reset) ==
    [status_code |-> 429, detail |-> "RATE_LIMITED", id |-> None,
     customer_id |-> None, type |-> "", amount |-> None, new_balance |-> None,
     current_balance |-> None, reset_time |-> reset_time,
     retry_after |-> seconds_until_reset]

(* POST /api/auth/login: the test of the bucket, AuthService.login, the
   record of the outcome.  A login whose query of the shops table raises is
   answered 500 and recorded neither as a failure nor as a success. *)
login_endpoint(p, client_ip, shop_id, password_ok, store_ok) ==
    LET checked == _check_rate_limit(_login_attempts[client_ip])
        request == LoginRequest(client_ip, shop_id)
    IN  /\ Free(p)
        /\ IF ~checked.is_allowed
           THEN /\ _login_attempts' = [_login_attempts EXCEPT ![client_ip] = checked.bucket]
                /\ Answer(p, request,
                          TooManyRequests(checked.reset_time, checked.reset_time - now))
                /\ UNCHANGED <<tokens, admitted, login_streak>>
           ELSE IF ~store_ok
           THEN /\ _login_attempts' = [_login_attempts EXCEPT ![client_ip] = checked.bucket]
                /\ Answer(p, request, HTTPException(500, "LOGIN_ERROR", None))
                /\ UNCHANGED <<tokens, admitted, login_streak>>
           ELSE IF password_ok
           THEN /\ Len(tokens) + 2 <= MaxTokens
                /\ tokens' = tokens \o << create_access_token(shop_id, NewJti(tokens)),
                                          create_refresh_token(shop_id, NewJti(tokens) + 1) >>
                /\ _login_attempts' = [_login_attempts EXCEPT
                       ![client_ip] = _record_login_attempt(checked.bucket, TRUE)]
                /\ Answer(p, request, TokenResponse(NewJti(tokens)))
                /\ login_streak' = [login_streak EXCEPT ![client_ip] =
                                        Streak(checked.bucket[1], 0)]
                /\ UNCHANGED admitted
           ELSE /\ _login_attempts' = [_login_attempts EXCEPT
                       ![client_ip] = _record_login_attempt(checked.bucket, FALSE)]
                /\ admitted' = [admitted EXCEPT !["login"][client_ip] =
                                    Admit(@, login_rate_limit_minutes)]
                /\ login_streak' = [login_streak EXCEPT ![client_ip] =
                       Streak(@.forgiven,
                              IF @.failed < login_rate_limit_attempts
                              THEN @.failed + 1 ELSE @.failed)]
                /\ Answer(p, request, HTTPException(401, "INVALID_CREDENTIALS", None))
                /\ UNCHANGED tokens
        /\ UNCHANGED <<ledger_vars, token_blacklist, now, pin_vars,
                       _reset_request_attempts, reset_vars>>

(***************************************************************************)
(* The password reset of services/auth_service.py.  A shop's reset state   *)
(* is the four reset_code columns of its row.  A code is stored as its     *)
(* bcrypt hash, whose salt is new with every code: the model numbers the   *)
(* codes as they are issued and uses the number as the salt, and redeemed  *)
(* counts, per code issued, the verify_reset_code calls that returned      *)
(* verified=true for it.  Time is counted in units of the lock.            *)
(*                                                                         *)
(* verify_reset_code reads the row and writes it in separate calls of the  *)
(* store: the select, the release of a lock that has run out, and the      *)
(* update after the comparison.  Calls served by different workers or      *)
(* serverless instances of the same database can come between them.        *)
(***************************************************************************)
RESET_CODE_EXPIRE_MINUTES == 2
RESET_MAX_FAILED_ATTEMPTS == 5
RESET_LOCK_DURATION_MINUTES == 1

Emails == {1, 2}
Codes == {1, 2}

(* One email is the email of a shop; the other is of none. *)
ResetShop == CHOOSE s \in Shops : \A other \in Shops : s <= other
RegisteredEmail == CHOOSE email \in Emails : \A other \in Emails : email <= other

UnknownEmail == CHOOSE email \in Emails : email # RegisteredEmail

shop_by_email(email) == IF email = RegisteredEmail THEN ResetShop ELSE None

NoHash == [bcrypt |-> None, salt |-> None]

_hash_reset_code(code, salt) == [bcrypt |-> code, salt |-> salt]

_verify_reset_code(code, code_hash) == code_hash # NoHash /\ code_hash.bcrypt = code

ResetColumns(code_hash, expires_at, failed_count, locked_until) ==
    [reset_code_hash |-> code_hash, reset_code_expires_at |-> expires_at,
     reset_code_failed_count |-> failed_count,
     reset_code_locked_until |-> locked_until]

NoResetCode == ResetColumns(NoHash, None, 0, None)

PasswordResetResponse ==
    [status_code |-> 200, message |-> "RESET_CODE_SENT",
     expires_in |-> RESET_CODE_EXPIRE_MINUTES * 60]

PasswordResetVerifySchema(email, code) ==
    [op |-> "verify_reset_code", email |-> email, code |-> code,
     shop_id |-> None, shop |-> NoResetCode]

PasswordResetVerifyResponse(verified, reset_token, remaining_attempts, locked_until) ==
    [status_code |-> 200, verified |-> verified, reset_token |-> reset_token,
     remaining_attempts |-> remaining_attempts, locked_until |-> locked_until]

(* AuthService.request_password_reset: the row of the email's shop with a
   new code, or the table as it is if the email is of no shop. *)
store_reset_code(email, code) ==
    LET shop_id == shop_by_email(email)
    IN  IF shop_id = None
        THEN reset_codes
        ELSE [reset_codes EXCEPT ![shop_id] =
                 ResetColumns(_hash_reset_code(code, Len(redeemed) + 1),
                              now + RESET_CODE_EXPIRE_MINUTES, 0, None)]

(* POST /api/auth/password-reset/request: the test of the bucket, then
   AuthService.request_password_reset, whose answer is the same whether the
   email is of a shop or not. *)
request_password_reset(p, client_ip, email, code) ==
    LET checked == _check_reset_rate_limit(_reset_request_attempts[client_ip])
        request == PasswordResetRequest(client_ip, email)
    IN  /\ Free(p)
        /\ _reset_request_attempts' =
               [_reset_request_attempts EXCEPT ![client_ip] = checked.bucket]
        /\ IF checked.is_allowed
           THEN /\ shop_by_email(email) # None => Len(redeemed) < MaxCodes
                /\ admitted' = [admitted EXCEPT !["reset"][client_ip] =
                                    Admit(@, reset_limit_window)]
                /\ reset_codes' = store_reset_code(email, code)
                /\ redeemed' = IF shop_by_email(email) = None
                               THEN redeemed
                               ELSE Append(redeemed, 0)
                /\ Answer(p, request, PasswordResetResponse)
           ELSE /\ Answer(p, request, TooManyRequests(None, None))
                /\ UNCHANGED <<admitted, reset_vars>>
        /\ UNCHANGED <<ledger_vars, token_vars, now, pin_vars, _login_attempts,
                       login_streak>>

(* verify_reset_code returns: the row it read goes with the call. *)
Returns(p, request, response) ==
    Answer(p, [request EXCEPT !.shop = NoResetCode], response)

(* verify_reset_code has read the row (request.shop) and goes on: to the
   release of the lock that has run out, or to the comparison. *)
Unlocking(request) == [state |-> "unlocking", request |-> request, response |-> NoResponse]
Comparing(request) == [state |-> "comparing", request |-> request, response |-> NoResponse]

ResetLocked(shop) ==
    shop.reset_code_locked_until # None /\ now < shop.reset_code_locked_until

ResetCodeExpired(shop) ==
    shop.reset_code_expires_at # None /\ now > shop.reset_code_expires_at

(* Lines 522-534: no code, or a code that has run out, is answered like an
   unknown email; otherwise the comparison is next. *)
reset_code_present(p, request) ==
    IF request.shop.reset_code_hash = NoHash \/ ResetCodeExpired(request.shop)
    THEN Returns(p, request, PasswordResetVerifyResponse(
                                 FALSE, NoToken, RESET_MAX_FAILED_ATTEMPTS - 1, None))
    ELSE calls' = [calls EXCEPT ![p] = Comparing(request)]

(* Lines 495-514: the select, the unknown email, the lock. *)
reset_code_select(p, email, code) ==
    LET shop_id == shop_by_email(email)
        sent == PasswordResetVerifySchema(email, code)
    IN  /\ Free(p)
        /\ IF shop_id = None
           THEN Returns(p, sent, PasswordResetVerifyResponse(
                                     FALSE, NoToken, RESET_MAX_FAILED_ATTEMPTS - 1, None))
           ELSE LET shop == reset_codes[shop_id]
                    request == [sent EXCEPT !.shop_id = shop_id, !.shop = shop]
                IN  IF ResetLocked(shop)
                    THEN Returns(p, request, PasswordResetVerifyResponse(
                                     FALSE, NoToken, 0, shop.reset_code_locked_until))
                    ELSE IF shop.reset_code_locked_until # None
                    THEN calls' = [calls EXCEPT ![p] = Unlocking(request)]
                    ELSE reset_code_present(p, request)
        /\ UNCHANGED <<ledger_vars, reset_vars, limit_vars, token_vars, now, pin_vars>>

(* Lines 516-520: the release of the lock; the row read before stays as it
   was read. *)
reset_code_unlock(p) ==
    /\ calls[p].state = "unlocking"
    /\ reset_codes' = [reset_codes EXCEPT
           ![calls[p].request.shop_id].reset_code_failed_count = 0,
           ![calls[p].request.shop_id].reset_code_locked_until = None]
    /\ reset_code_present(p, calls[p].request)
    /\ UNCHANGED <<ledger_vars, redeemed, limit_vars, token_vars, now, pin_vars>>

(* Lines 536-573: the comparison with the hash that was read, and the
   update: the code is cleared and a reset token handed out, or the count that
   was read is stored one higher, with a lock from the fifth on. *)
reset_code_update(p) ==
    /\ calls[p].state = "comparing"
    /\ LET request == calls[p].request
           shop == request.shop
           failed_count == shop.reset_code_failed_count + 1
           new_locked_until == IF failed_count >= RESET_MAX_FAILED_ATTEMPTS
                               THEN now + RESET_LOCK_DURATION_MINUTES
                               ELSE None
           remaining == IF failed_count >= RESET_MAX_FAILED_ATTEMPTS
                        THEN 0
                        ELSE RESET_MAX_FAILED_ATTEMPTS - failed_count
       IN  IF _verify_reset_code(request.code, shop.reset_code_hash)
           THEN /\ reset_codes' = [reset_codes EXCEPT ![request.shop_id] = NoResetCode]
                /\ redeemed' = [redeemed EXCEPT ![shop.reset_code_hash.salt] = @ + 1]
                /\ Returns(p, request, PasswordResetVerifyResponse(
                               TRUE, _create_reset_token(request.shop_id),
                               RESET_MAX_FAILED_ATTEMPTS, None))
           ELSE /\ reset_codes' = [reset_codes EXCEPT
                       ![request.shop_id].reset_code_failed_count = failed_count,
                       ![request.shop_id].reset_code_locked_until =
                           IF new_locked_until = None THEN @ ELSE new_locked_until]
                /\ Returns(p, request, PasswordResetVerifyResponse(
                               FALSE, NoToken, remaining, new_locked_until))
                /\ UNCHANGED redeemed
    /\ UNCHANGED <<ledger_vars, limit_vars, token_vars, now, pin_vars>>

(***************************************************************************)
(* DELETE /api/customers/{customer_id} (routers/customers.py).  The handler *)
(* reads the customer's row, refuses if it is not the shop's or holds a    *)
(* balance, and then deletes the row by its id: two calls of the store,    *)
(* which other requests served from the same database (another worker or   *)
(* serverless instance) can come between.  What the delete does with the   *)
(* customer's transaction rows is decided by the foreign key of the        *)
(* transactions table, whose definition is not among the source files: it  *)
(* either lets the delete through or, if the customer has rows, makes it   *)
(* raise (foreign_key_blocks).  The rows of a deleted customer stay in the *)
(* log of the model, so that ids keep their meaning; the database          *)
(* functions refuse them, the customer being gone.                         *)
(***************************************************************************)
DeleteRequest(shop_id, customer_id) ==
    [NoRequest EXCEPT !.op = "delete_customer", !.shop_id = shop_id,
                      !.customer_id = customer_id]

(* The handler has read the row and found nothing against the delete. *)
Checked(request) == [state |-> "checked", request |-> request, response |-> NoResponse]

NoContent == [NoResponse EXCEPT !.status_code = 204]

HasRows(txs, customer_id) == \E i \in DOMAIN txs : txs[i].customer_id = customer_id

delete_customer_select(p, request) ==
    /\ Free(p)
    /\ request.op = "delete_customer"
    /\ IF ~OwnedBy(customers, request.customer_id, request.shop_id)
       THEN Answer(p, request, HTTPException(404, "CUSTOMER_NOT_FOUND", None))
       ELSE IF customers[request.customer_id].current_balance > 0
       THEN Answer(p, request, HTTPException(400, "HAS_BALANCE", None))
       ELSE calls' = [calls EXCEPT ![p] = Checked(request)]
    /\ UNCHANGED <<ledger_vars, reset_vars, limit_vars, token_vars, now, pin_vars>>

delete_customer_delete(p, foreign_key_blocks) ==
    /\ calls[p].state = "checked"
    /\ LET request == calls[p].request
           customer_id == request.customer_id
       IN  IF /\ foreign_key_blocks
              /\ customer_id \in DOMAIN customers
              /\ HasRows(transactions, customer_id)
           THEN /\ Answer(p, request, HTTPException(500, "INTERNAL_SERVER_ERROR", None))
                /\ UNCHANGED customers
           ELSE /\ customers' = [c \in DOMAIN customers \ {customer_id} |-> customers[c]]
                /\ Answer(p, request, NoContent)
    /\ UNCHANGED <<transactions, is_cancelled, reset_vars, limit_vars, token_vars, now, pin_vars>>

(* The clock. *)
Tick ==
    /\ now < MaxTime
    /\ now' = now + 1
    /\ UNCHANGED <<reset_vars, limit_vars, ledger_vars, calls, token_vars, pin_vars>>

(***************************************************************************)
(* A client sends a ledger request.  Amounts satisfy the request schemas   *)
(* (actual_payment > 0, service_amount >= 0, amount > 0).                  *)
(***************************************************************************)
Requests ==
    {ChargeRequest(s, c, a, b) :
        s \in Shops, c \in CustomerIds, a \in Payments, b \in ServiceAmounts}
    \cup {DeductRequest(s, c, a) : s \in Shops, c \in CustomerIds, a \in DeductAmounts}
    \cup {CancelRequest(s, t) : s \in Shops, t \in 1..MaxTx}

(* In Spec one request is served at a time: it arrives when no client holds
   an answer, and the client gives the answer up before the next arrives.
   One client is enough for that; it is the first. *)
Quiet == \A q \in Procs : calls[q].state = "idle"

Teller == CHOOSE p \in Procs : \A q \in Procs : p <= q

Arrives(request) ==
    /\ Quiet
    /\ Len(transactions) < MaxTx

Return(p) ==
    /\ calls[p].state = "done"
    /\ calls' = [calls EXCEPT ![p] = Idle]
    /\ UNCHANGED <<reset_vars, limit_vars, ledger_vars, token_vars, now, pin_vars>>

(* The ledger specifications take the caller's shop as given (the request
   has passed get_current_shop): no token has been issued, the clock stands
   and no PIN has been tried. *)
NoSessions ==
    /\ tokens = <<>>
    /\ token_blacklist = {}
    /\ now = 0
    /\ shops = [s \in Shops |-> Shop(hash_pin(InitialPin), 0, None)]
    /\ pin_verified = {}
    /\ _login_attempts = [ip \in ClientIps |-> <<0, _datetime_min_utc>>]
    /\ _reset_request_attempts = [ip \in ClientIps |-> <<0, _datetime_min_utc>>]
    /\ admitted = [bucket \in {"login", "reset"} |-> [ip \in ClientIps |-> <<>>]]
    /\ login_streak = [ip \in ClientIps |-> Streak(0, 0)]
    /\ reset_codes = [s \in Shops |-> NoResetCode]
    /\ redeemed = <<>>

(***************************************************************************)
(* Spec: the life of the ledger from the empty tables, the store answering *)
(* every call.                                                             *)
(***************************************************************************)
Init ==
    /\ customers = <<>>
    /\ transactions = <<>>
    /\ is_cancelled = <<>>
    /\ NoSessions
    /\ calls = [p \in Procs |-> Idle]

Next ==
    \/ Quiet /\ \E s \in Shops, dup \in BOOLEAN : create_customer(s, dup)
    \/ Quiet /\ \E s \in Shops, d \in CustomerImportRequest : import_customers(s, d)
    \/ Quiet /\ \E s \in Shops, d \in CustomerImportRequest :
                    onboarding_import_customers(s, d)
    \/ Quiet /\ \E s \in Shops, c \in CustomerIds : update_customer(s, c)
    \/ \E r \in Requests : Arrives(r) /\ charge(Teller, r, TRUE)
    \/ \E r \in Requests : Arrives(r) /\ deduct(Teller, r, TRUE)
    \/ \E r \in Requests : Arrives(r) /\ cancel(Teller, r, TRUE)
    \/ \E p \in Procs : Return(p)

Spec == Init /\ [][Next]_vars

(***************************************************************************)
(* SpecFault: as Spec, and a call to the store may fail.                   *)
(***************************************************************************)
NextFault ==
    \/ Next
    \/ \E r \in Requests : Arrives(r) /\ charge(Teller, r, FALSE)
    \/ \E r \in Requests : Arrives(r) /\ deduct(Teller, r, FALSE)
    \/ \E r \in Requests : Arrives(r) /\ cancel(Teller, r, FALSE)

SpecFault == Init /\ [][NextFault]_vars

(***************************************************************************)
(* SpecRace: one customer with two rows of history (a CHARGE, then a       *)
(* DEDUCT or a second CHARGE), and every client with a ledger request on   *)
(* that customer in flight at once.  The requests reach the store in any   *)
(* order.                                                                  *)
(***************************************************************************)
OpeningCharges == {1, 2, 3}

RaceShop == CHOOSE s \in Shops : \A t \in Shops : s <= t
RaceCustomer == CHOOSE c \in CustomerIds : \A d \in CustomerIds : c <= d

OpeningLogs ==
    {log \in {<< Transaction(RaceCustomer, "CHARGE", a, None),
                 Transaction(RaceCustomer, "DEDUCT", d, None) >> :
                     a \in OpeningCharges, d \in DeductAmounts} :
        log[2].amount <= log[1].amount}
    \cup {<< Transaction(RaceCustomer, "CHARGE", a, None),
             Transaction(RaceCustomer, "CHARGE", b, None) >> :
                 a \in OpeningCharges, b \in Payments}

OpeningSum(log) ==
    log[1].amount + (IF log[2].type = "CHARGE" THEN log[2].amount ELSE 0 - log[2].amount)

RaceRequests ==
    {ChargeRequest(RaceShop, RaceCustomer, a, b) : a \in Payments, b \in ServiceAmounts}
    \cup {DeductRequest(RaceShop, RaceCustomer, a) : a \in DeductAmounts}
    \cup {CancelRequest(RaceShop, t) : t \in 1..3}

InitRace ==
    \E log \in OpeningLogs :
        /\ customers = (RaceCustomer :> Customer(RaceShop, OpeningSum(log)))
        /\ transactions = log
        /\ is_cancelled = <<FALSE, FALSE>>
        /\ NoSessions
        /\ calls \in [Procs -> {Pending(r) : r \in RaceRequests}]

InFlight(p) == calls[p].state = "pending"

NextRace ==
    \/ \E p \in Procs : InFlight(p) /\ charge(p, calls[p].request, TRUE)
    \/ \E p \in Procs : InFlight(p) /\ deduct(p, calls[p].request, TRUE)
    \/ \E p \in Procs : InFlight(p) /\ cancel(p, calls[p].request, TRUE)

SpecRace == InitRace /\ [][NextRace]_vars

(***************************************************************************)
(* SpecPair: two customers of one shop, each with one CHARGE row of        *)
(* history, and every client with a ledger request on one or the other in  *)
(* flight at once.                                                         *)
(***************************************************************************)
OtherCustomer == CHOOSE c \in CustomerIds : c # RaceCustomer

PairRequests ==
    {ChargeRequest(RaceShop, c, a, b) :
        c \in {RaceCustomer, OtherCustomer}, a \in Payments, b \in ServiceAmounts}
    \cup {DeductRequest(RaceShop, c, a) :
        c \in {RaceCustomer, OtherCustomer}, a \in DeductAmounts}
    \cup {CancelRequest(RaceShop, t) : t \in 1..2}

InitPair ==
    \E a \in OpeningCharges, b \in OpeningCharges :
        /\ customers = (RaceCustomer :> Customer(RaceShop, a))
                           @@ (OtherCustomer :> Customer(RaceShop, b))
        /\ transactions = << Transaction(RaceCustomer, "CHARGE", a, None),
                             Transaction(OtherCustomer, "CHARGE", b, None) >>
        /\ is_cancelled = <<FALSE, FALSE>>
        /\ NoSessions
        /\ calls \in [Procs -> {Pending(r) : r \in PairRequests}]

NextPair ==
    \/ \E p \in Procs : InFlight(p) /\ charge(p, calls[p].request, TRUE)
    \/ \E p \in Procs : InFlight(p) /\ deduct(p, calls[p].request, TRUE)
    \/ \E p \in Procs : InFlight(p) /\ cancel(p, calls[p].request, TRUE)

SpecPair == InitPair /\ [][NextPair]_vars

(***************************************************************************)
(* SpecAuth: sessions.  Each shop has one customer with one CHARGE row;    *)
(* one client logs in, refreshes, logs out and sends ledger requests with  *)
(* whatever token it holds or has tampered with, while time passes and the *)
(* token_blacklist table may fail to answer.                               *)
(***************************************************************************)
(* What a client can put in the Authorization header: a token it was
   issued, or one it has rewritten into an access token, which breaks the
   signature. *)
Forged(token) == [token EXCEPT !.type = "access", !.signed = FALSE]

Presentable ==
    {tokens[i] : i \in DOMAIN tokens} \cup {Forged(tokens[i]) : i \in DOMAIN tokens}

AuthCharges == {ChargeRequest(None, c, 1, 0) : c \in CustomerIds}
AuthDeducts == {DeductRequest(None, c, 1) : c \in CustomerIds}
AuthCancels == {CancelRequest(None, t) : t \in 1..2}

InitAuth ==
    /\ customers = [c \in CustomerIds |-> Customer(c, 1)]
    /\ transactions = [c \in CustomerIds |-> Transaction(c, "CHARGE", 1, None)]
    /\ is_cancelled = [c \in CustomerIds |-> FALSE]
    /\ calls = [p \in Procs |-> Idle]
    /\ NoSessions

Sends == Len(transactions) < MaxTx

NextAuth ==
    \/ \E s \in Shops, ok \in BOOLEAN : login(Teller, s, ok)
    \/ \E t \in Presentable, ok \in BOOLEAN : refresh_token(Teller, t, ok)
    \/ \E t \in Presentable, ok \in BOOLEAN : logout(Teller, t, ok)
    \/ nice_auth_complete(Teller)
    \/ \E s \in Shops : verify_reset_code(Teller, s)
    \/ Sends /\ \E t \in Presentable, r \in AuthCharges, ok \in BOOLEAN :
                    charge_endpoint(Teller, t, r, ok)
    \/ Sends /\ \E t \in Presentable, r \in AuthDeducts, ok \in BOOLEAN :
                    deduct_endpoint(Teller, t, r, ok)
    \/ Sends /\ \E t \in Presentable, r \in AuthCancels, ok \in BOOLEAN :
                    cancel_endpoint(Teller, t, r, ok)
    \/ Tick

SpecAuth == InitAuth /\ [][NextAuth]_vars

(***************************************************************************)
(* SpecPin: the PIN and the ledger.  Each shop has one customer with one   *)
(* CHARGE row; a client with a session of either shop tries PINs and sends *)
(* cancels, while time passes.                                             *)
(***************************************************************************)
PinCancels == {CancelRequest(s, t) : s \in Shops, t \in 1..MaxTx}

NextPin ==
    \/ \E s \in Shops, ok \in BOOLEAN : verify_pin(Teller, s, ok)
    \/ Sends /\ \E r \in PinCancels : cancel(Teller, r, TRUE)
    \/ Tick

SpecPin == InitAuth /\ [][NextPin]_vars

(***************************************************************************)
(* SpecGuard: the PIN of one shop under overlapping callers.  Every client *)
(* may verify or change the PIN with any PIN it likes, or reset it, while  *)
(* time passes.                                                            *)
(***************************************************************************)
GuardShop == CHOOSE s \in Shops : \A t \in Shops : s <= t

PinRequests ==
    {PinVerifyRequest(GuardShop, pin) : pin \in Pins}
    \cup {PinChangeRequest(GuardShop, current_pin, new_pin) :
              current_pin \in Pins, new_pin \in Pins}

NextGuard ==
    \/ \E p \in Procs, r \in PinRequests : pin_select(p, r)
    \/ \E p \in Procs : pin_rpc(p)
    \/ \E p \in Procs : change_pin_update(p)
    \/ \E p \in Procs, pin \in Pins : reset_pin(p, GuardShop, pin)
    \/ Tick

SpecGuard == InitAuth /\ [][NextGuard]_vars

(***************************************************************************)
(* SpecLimit: the login bucket of one server process.  Clients behind one  *)
(* IP log in to one shop with a right or a wrong password, in any order,   *)
(* while time passes.  SpecThrottle: the buckets of the password reset     *)
(* requests, asked for from either IP.  The two kinds of bucket are        *)
(* different dicts and no handler touches both.                            *)
(***************************************************************************)
LoginIp == CHOOSE ip \in ClientIps : \A other \in ClientIps : ip <= other

NextLimit ==
    \/ \E p \in Procs, ok \in BOOLEAN, store_ok \in BOOLEAN :
            login_endpoint(p, LoginIp, GuardShop, ok, store_ok)
    \/ Tick

SpecLimit == InitAuth /\ [][NextLimit]_vars

NextThrottle ==
    \/ \E p \in Procs, ip \in ClientIps, code \in Codes :
            request_password_reset(p, ip, UnknownEmail, code)
    \/ Tick

SpecThrottle == InitAuth /\ [][NextThrottle]_vars

(***************************************************************************)
(* SpecDelete: customers come and go.  Each shop has one customer, newly   *)
(* created (no balance, no rows); clients charge, deduct, cancel and       *)
(* delete, the two calls of a delete apart.                                *)
(***************************************************************************)
DeleteCharges == {ChargeRequest(c, c, 1, 0) : c \in CustomerIds}
DeleteDeducts == {DeductRequest(c, c, 1) : c \in CustomerIds}
DeleteCancels == {CancelRequest(s, t) : s \in Shops, t \in 1..MaxTx}
DeleteRequests == {DeleteRequest(s, c) : s \in Shops, c \in CustomerIds}

InitDelete ==
    /\ customers = [c \in CustomerIds |-> Customer(c, 0)]
    /\ transactions = <<>>
    /\ is_cancelled = <<>>
    /\ calls = [p \in Procs |-> Idle]
    /\ NoSessions

NextDelete ==
    \/ Sends /\ \E p \in Procs, r \in DeleteCharges : Free(p) /\ charge(p, r, TRUE)
    \/ Sends /\ \E p \in Procs, r \in DeleteDeducts : Free(p) /\ deduct(p, r, TRUE)
    \/ Sends /\ \E p \in Procs, r \in DeleteCancels : Free(p) /\ cancel(p, r, TRUE)
    \/ \E p \in Procs, r \in DeleteRequests : delete_customer_select(p, r)
    \/ \E p \in Procs, blocks \in BOOLEAN : delete_customer_delete(p, blocks)

SpecDelete == InitDelete /\ [][NextDelete]_vars

(***************************************************************************)
(* SpecReset: the password reset of one shop.  Clients behind one IP ask   *)
(* for codes for the shop's email and submit codes for it or for an email  *)
(* of no shop, while time passes; the store calls of overlapping           *)
(* verify_reset_code calls interleave.                                     *)
(***************************************************************************)
NextReset ==
    \/ \E p \in Procs, code \in Codes :
            request_password_reset(p, LoginIp, RegisteredEmail, code)
    \/ \E p \in Procs, email \in Emails, code \in Codes :
            reset_code_select(p, email, code)
    \/ \E p \in Procs : reset_code_unlock(p)
    \/ \E p \in Procs : reset_code_update(p)
    \/ Tick

SpecReset == InitAuth /\ [][NextReset]_vars

(***************************************************************************)
(* Properties.                                                             *)
(***************************************************************************)
(* The signed sum of a customer's rows: CHARGE adds, DEDUCT subtracts, a
   CANCEL subtracts when it reverses a CHARGE and adds when it reverses a
   DEDUCT. *)
SignedAmount(txs, i) ==
    IF txs[i].type = "CHARGE" THEN txs[i].amount
    ELSE IF txs[i].type = "DEDUCT" THEN 0 - txs[i].amount
    ELSE IF txs[txs[i].original_transaction_id].type = "CHARGE"
         THEN 0 - txs[i].amount
         ELSE txs[i].amount

RECURSIVE SignedSumTo(_, _, _)
SignedSumTo(txs, customer_id, n) ==
    IF n = 0
    THEN 0
    ELSE SignedSumTo(txs, customer_id, n - 1)
             + (IF txs[n].customer_id = customer_id THEN SignedAmount(txs, n) ELSE 0)

SignedSum(txs, customer_id) == SignedSumTo(txs, customer_id, Len(txs))

(* C1: every customer's current_balance is >= 0 and equals the signed sum of
   that customer's transaction rows, in every reachable state. *)
C1_BalanceEqualsSignedSum ==
    \A c \in DOMAIN customers :
        /\ customers[c].current_balance >= 0
        /\ customers[c].current_balance = SignedSum(transactions, c)

(* A step outside the ledger: no ledger request was answered in it. *)
NonLedgerStep == calls' = calls

(* C4: an operation other than charge, deduct and cancel never creates a
   customer with, nor changes a customer to, a current_balance that differs
   from the signed sum of that customer's transaction rows. *)
C4_OnlyLedgerWritesBalance ==
    [][NonLedgerStep =>
          \A c \in DOMAIN customers' :
              (\/ c \notin DOMAIN customers
               \/ customers'[c].current_balance # customers[c].current_balance)
                  => customers'[c].current_balance = SignedSum(transactions', c)]_vars

(***************************************************************************)
(* The race (SpecRace).                                                    *)
(***************************************************************************)
Min(a, b) == IF a <= b THEN a ELSE b

Answered(p) == calls[p].state = "done"
Succeeded(p) == Answered(p) /\ calls[p].response.status_code = 201
AllAnswered == \A p \in Procs : Answered(p)

(* The balance the race starts from, read off the two opening rows. *)
OpeningBalance == OpeningSum(transactions)

RaceBalance == customers[RaceCustomer].current_balance

(* Every client sent deduct(amount) with the same amount. *)
DeductRace ==
    \A p \in Procs :
        /\ calls[p].request.op = "deduct"
        /\ calls[p].request.amount = calls[Teller].request.amount

(* C2: balance B, N concurrent deduct(A) on the customer and nothing else:
   once all are answered, exactly min(N, B div A) succeeded, each of the
   others failed INSUFFICIENT_BALANCE, and the balance is B - succeeded * A. *)
C2_ConcurrentDeducts ==
    (DeductRace /\ AllAnswered) =>
        LET A == calls[Teller].request.amount
            succeeded == Cardinality({p \in Procs : Succeeded(p)})
        IN  /\ succeeded = Min(NProcs, OpeningBalance \div A)
            /\ \A p \in Procs :
                   ~Succeeded(p) =>
                       /\ calls[p].response.status_code = 400
                       /\ calls[p].response.detail = "INSUFFICIENT_BALANCE"
            /\ RaceBalance = OpeningBalance - succeeded * A

(* C2's case: a race of equal deducts that the balance covers only in part. *)
C2_Witness ==
    /\ DeductRace
    /\ AllAnswered
    /\ \E p \in Procs : Succeeded(p)
    /\ \E p \in Procs : calls[p].response.detail = "INSUFFICIENT_BALANCE"

RECURSIVE SumOver(_, _)
SumOver(S, f) ==
    IF S = {}
    THEN 0
    ELSE LET x == CHOOSE y \in S : TRUE
         IN  f[x] + SumOver(S \ {x}, f)

(* What a request that returned success asked to add to the balance. *)
Credited ==
    [p \in Procs |->
        IF Succeeded(p) /\ calls[p].request.op = "charge"
        THEN calls[p].request.actual_payment + calls[p].request.service_amount
        ELSE 0]

Debited ==
    [p \in Procs |->
        IF Succeeded(p) /\ calls[p].request.op = "deduct"
        THEN calls[p].request.amount
        ELSE 0]

ChargeDeductRace == \A p \in Procs : calls[p].request.op \in {"charge", "deduct"}

(* C3: in a race of charges and deducts on one customer no update is lost:
   the balance is the opening balance plus the totals of the charges that
   returned success minus the amounts of the deducts that returned success
   (requests not yet answered have had no effect). *)
C3_NoLostUpdate ==
    ChargeDeductRace =>
        RaceBalance = OpeningBalance + SumOver(Procs, Credited) - SumOver(Procs, Debited)

(* C3's case: a charge and a deduct raced and both returned success. *)
C3_Witness ==
    /\ ChargeDeductRace
    /\ AllAnswered
    /\ \E p \in Procs : Succeeded(p) /\ calls[p].request.op = "charge"
    /\ \E p \in Procs : Succeeded(p) /\ calls[p].request.op = "deduct"

(* The ledger of one customer run by one caller at a time: the balance, the
   rows so far, and the answer to the request just served. *)
SeqAnswer(balance, log, response) ==
    [balance |-> balance, log |-> log, response |-> response]

SeqCancelled(log, t) ==
    \E i \in 1..Len(log) : log[i].type = "CANCEL" /\ log[i].original_transaction_id = t

SeqRow(type, amount, original) ==
    Transaction(RaceCustomer, type, amount, original)

SeqServe(balance, log, request) ==
    IF request.op = "charge"
    THEN LET total == request.actual_payment + request.service_amount
         IN  SeqAnswer(balance + total, Append(log, SeqRow("CHARGE", total, None)),
                 TransactionResponse(Len(log) + 1, RaceCustomer, "CHARGE", total,
                                     balance + total))
    ELSE IF request.op = "deduct"
    THEN IF request.amount <= balance
         THEN SeqAnswer(balance - request.amount,
                  Append(log, SeqRow("DEDUCT", request.amount, None)),
                  TransactionResponse(Len(log) + 1, RaceCustomer, "DEDUCT",
                                      request.amount, balance - request.amount))
         ELSE SeqAnswer(balance, log,
                  HTTPException(400, "INSUFFICIENT_BALANCE", balance))
    ELSE LET t == request.transaction_id
         IN  IF t \notin 1..Len(log)
             THEN SeqAnswer(balance, log, HTTPException(404, "TRANSACTION_NOT_FOUND", None))
             ELSE IF SeqCancelled(log, t)
             THEN SeqAnswer(balance, log, HTTPException(400, "ALREADY_CANCELLED", None))
             ELSE IF log[t].type = "CANCEL"
             THEN SeqAnswer(balance, log, HTTPException(400, "INVALID_CANCEL", None))
             ELSE IF log[t].type = "CHARGE" /\ balance < log[t].amount
             THEN SeqAnswer(balance, log,
                      HTTPException(400, "INSUFFICIENT_BALANCE_FOR_CANCEL", None))
             ELSE LET after == IF log[t].type = "CHARGE"
                               THEN balance - log[t].amount
                               ELSE balance + log[t].amount
                  IN  SeqAnswer(after, Append(log, SeqRow("CANCEL", log[t].amount, t)),
                          TransactionResponse(Len(log) + 1, RaceCustomer, "CANCEL",
                                              log[t].amount, after))

(* Serving the clients of order one after the other from (balance, log) gives
   each the answer it got in the race and ends with the race's balance. *)
RECURSIVE SeqAgrees(_, _, _)
SeqAgrees(balance, log, order) ==
    IF order = <<>>
    THEN balance = RaceBalance
    ELSE LET p == Head(order)
             served == SeqServe(balance, log, calls[p].request)
         IN  /\ served.response = calls[p].response
             /\ SeqAgrees(served.balance, served.log, Tail(order))

Orders(S) ==
    {order \in [1..Cardinality(S) -> S] :
        \A i, j \in 1..Cardinality(S) : order[i] = order[j] => i = j}

(* C5: the answers given so far in a race of charge, deduct and cancel calls
   on one customer, and the balance, are those of serving the same calls one
   at a time in some order; the balance never goes below zero. *)
C5_Linearizable ==
    /\ RaceBalance >= 0
    /\ \E order \in Orders({p \in Procs : Answered(p)}) :
           SeqAgrees(OpeningBalance, SubSeq(transactions, 1, 2), order)

(* C5's case: a cancel of the opening CHARGE raced with a deduct, and the
   balance covered only the one that reached the store first. *)
C5_Witness ==
    /\ AllAnswered
    /\ \E p, q \in Procs :
           /\ calls[p].request.op = "cancel"
           /\ calls[p].request.transaction_id = 1
           /\ calls[q].request.op = "deduct"
           /\ Succeeded(p) # Succeeded(q)
           /\ OpeningBalance >= calls[q].request.amount
           /\ OpeningBalance >= transactions[1].amount
           /\ OpeningBalance < calls[q].request.amount + transactions[1].amount

(***************************************************************************)
(* Single calls (Spec, SpecFault).                                         *)
(***************************************************************************)
(* The step answers a request of client p. *)
Serves(p) == calls[p].state # "done" /\ calls'[p].state = "done"

LedgerUnchanged == UNCHANGED <<customers, transactions, is_cancelled>>

(* C6: a charge, deduct or cancel that returns success (201) has appended
   exactly one row, the one it names, and changed the customer's balance; a
   call that returns an error (4xx, or 500 when the store fails) has changed
   neither the customers nor the transactions. *)
C6_AllOrNothing ==
    [][\A p \in Procs :
          Serves(p) =>
              LET response == calls'[p].response
              IN  IF response.status_code = 201
                  THEN /\ Len(transactions') = Len(transactions) + 1
                       /\ SubSeq(transactions', 1, Len(transactions)) = transactions
                       /\ response.id = Len(transactions')
                       /\ transactions'[response.id].customer_id = response.customer_id
                       /\ customers'[response.customer_id].current_balance
                              # customers[response.customer_id].current_balance
                       /\ \A c \in DOMAIN customers :
                              c # response.customer_id => customers'[c] = customers[c]
                  ELSE LedgerUnchanged]_vars

(* C6's case: with rows in the log, a call failed on the store (500). *)
C6_Witness ==
    /\ Len(transactions) > 0
    /\ \E p \in Procs : Answered(p) /\ calls[p].response.status_code = 500

(* C7: once a CANCEL row references T, a cancel of T does not succeed and
   leaves customers and transactions as they are; asked by the shop that owns
   T's customer it is answered 400 ALREADY_CANCELLED. *)
C7_CancelIdempotent ==
    [][\A p \in Procs :
          (/\ Serves(p)
           /\ calls'[p].request.op = "cancel"
           /\ SeqCancelled(transactions, calls'[p].request.transaction_id)) =>
              LET request == calls'[p].request
                  original == transactions[request.transaction_id]
              IN  /\ calls'[p].response.status_code # 201
                  /\ OwnedBy(customers, original.customer_id, request.shop_id) =>
                         calls'[p].response = HTTPException(400, "ALREADY_CANCELLED", None)
                  /\ LedgerUnchanged]_vars

(* C7's case: a second cancel of a cancelled transaction was answered. *)
C7_Witness ==
    \E p \in Procs :
        /\ Answered(p)
        /\ calls[p].request.op = "cancel"
        /\ calls[p].response.detail = "ALREADY_CANCELLED"
        /\ SeqCancelled(transactions, calls[p].request.transaction_id)

(* C8: the owner's cancel of a CHARGE that no CANCEL references yet: when the
   amount exceeds the balance it is answered 400
   INSUFFICIENT_BALANCE_FOR_CANCEL, writes nothing and leaves the CHARGE
   without a CANCEL; whenever the balance covers the amount it succeeds,
   whatever was tried before. *)
C8_CancelOfSpentCharge ==
    [][\A p \in Procs :
          (/\ Serves(p)
           /\ calls'[p].request.op = "cancel"
           /\ calls'[p].request.transaction_id \in 1..Len(transactions)) =>
              LET request == calls'[p].request
                  original == transactions[request.transaction_id]
              IN  (/\ original.type = "CHARGE"
                   /\ ~SeqCancelled(transactions, request.transaction_id)
                   /\ OwnedBy(customers, original.customer_id, request.shop_id)) =>
                      IF original.amount > customers[original.customer_id].current_balance
                      THEN /\ calls'[p].response =
                                  HTTPException(400, "INSUFFICIENT_BALANCE_FOR_CANCEL", None)
                           /\ LedgerUnchanged
                           /\ ~SeqCancelled(transactions', request.transaction_id)
                      ELSE calls'[p].response.status_code = 201]_vars

(* C8's case: a cancel of a CHARGE failed because the funds were spent. *)
C8_Witness ==
    \E p \in Procs :
        /\ Answered(p)
        /\ calls[p].request.op = "cancel"
        /\ calls[p].response.detail = "INSUFFICIENT_BALANCE_FOR_CANCEL"
        /\ \E i \in 1..Len(transactions) : transactions[i].type = "DEDUCT"

(* C9: a cancel that succeeds targets a CHARGE or DEDUCT of amount a; the
   balance goes down by a for a CHARGE and up by a for a DEDUCT, the one row
   appended is a CANCEL of amount a referencing the original, and the answer
   reports that row and the new balance. *)
C9_CancelReversesOriginal ==
    [][\A p \in Procs :
          (/\ Serves(p)
           /\ calls'[p].request.op = "cancel"
           /\ calls'[p].response.status_code = 201) =>
              LET t == calls'[p].request.transaction_id
                  original == transactions[t]
                  c == original.customer_id
                  a == original.amount
              IN  /\ original.type \in {"CHARGE", "DEDUCT"}
                  /\ customers'[c].current_balance =
                         IF original.type = "CHARGE"
                         THEN customers[c].current_balance - a
                         ELSE customers[c].current_balance + a
                  /\ transactions' = Append(transactions, Transaction(c, "CANCEL", a, t))
                  /\ calls'[p].response =
                         TransactionResponse(Len(transactions'), c, "CANCEL", a,
                                             customers'[c].current_balance)]_vars

(* C9's case: a DEDUCT was cancelled. *)
C9_Witness ==
    \E p \in Procs :
        /\ Succeeded(p)
        /\ calls[p].request.op = "cancel"
        /\ transactions[calls[p].request.transaction_id].type = "DEDUCT"

(* C10: every CANCEL row references an earlier CHARGE or DEDUCT row of the
   same customer, and no two CANCEL rows reference the same row. *)
C10_CancelReferences ==
    /\ \A i \in 1..Len(transactions) :
           transactions[i].type = "CANCEL" =>
               LET o == transactions[i].original_transaction_id
               IN  /\ o \in 1..(i - 1)
                   /\ transactions[o].type \in {"CHARGE", "DEDUCT"}
                   /\ transactions[o].customer_id = transactions[i].customer_id
    /\ \A i, j \in 1..Len(transactions) :
           (/\ transactions[i].type = "CANCEL"
            /\ transactions[j].type = "CANCEL"
            /\ transactions[i].original_transaction_id
                   = transactions[j].original_transaction_id) => i = j

(* C10's case: a cancel of a CANCEL row was refused. *)
C10_Witness ==
    \E p \in Procs :
        /\ Answered(p)
        /\ calls[p].response.detail = "INVALID_CANCEL"
        /\ transactions[calls[p].request.transaction_id].type = "CANCEL"

(***************************************************************************)
(* The transaction log.                                                    *)
(***************************************************************************)
(* C11: a step never shortens the log and leaves every row already written
   as it was, in every field: the row itself and its cancelled mark. *)
C11_AppendOnly ==
    [][/\ Len(transactions') >= Len(transactions)
       /\ Len(is_cancelled') >= Len(is_cancelled)
       /\ \A i \in 1..Len(transactions) :
              /\ transactions'[i] = transactions[i]
              /\ is_cancelled'[i] = is_cancelled[i]]_vars

(* C12: a charge answered 201 for a customer of balance b has appended one
   CHARGE row of amount actual_payment + service_amount, stored the balance
   b + actual_payment + service_amount and reported that amount and balance. *)
C12_ChargeTotal ==
    [][\A p \in Procs :
          (/\ Serves(p)
           /\ calls'[p].request.op = "charge"
           /\ calls'[p].response.status_code = 201) =>
              LET request == calls'[p].request
                  c == request.customer_id
                  total == request.actual_payment + request.service_amount
                  b == customers[c].current_balance
              IN  /\ request.actual_payment > 0
                  /\ request.service_amount >= 0
                  /\ transactions' = Append(transactions, Transaction(c, "CHARGE", total, None))
                  /\ customers'[c].current_balance = b + total
                  /\ calls'[p].response =
                         TransactionResponse(Len(transactions'), c, "CHARGE", total, b + total)]_vars

(* C12's case: a charge with a service amount on a customer holding funds. *)
C12_Witness ==
    \E p \in Procs :
        /\ Succeeded(p)
        /\ calls[p].request.op = "charge"
        /\ calls[p].request.service_amount > 0
        /\ calls[p].response.new_balance > calls[p].response.amount

(* C13: a charge or deduct on a customer of another shop is answered 404
   CUSTOMER_NOT_FOUND, a cancel of a transaction of another shop's customer
   is answered 403 UNAUTHORIZED, and neither changes a customer, a row or a
   mark of any shop. *)
C13_ConfinedToAccount ==
    [][\A p \in Procs :
          Serves(p) =>
              LET request == calls'[p].request
                  response == calls'[p].response
              IN  /\ (/\ request.op \in {"charge", "deduct"}
                      /\ request.customer_id \in DOMAIN customers
                      /\ customers[request.customer_id].shop_id # request.shop_id) =>
                         /\ response = HTTPException(404, "CUSTOMER_NOT_FOUND", None)
                         /\ LedgerUnchanged
                  /\ (/\ request.op = "cancel"
                      /\ request.transaction_id \in 1..Len(transactions)
                      /\ customers[transactions[request.transaction_id].customer_id].shop_id
                             # request.shop_id) =>
                         /\ response = HTTPException(403, "UNAUTHORIZED", None)
                         /\ LedgerUnchanged]_vars

(* C13's case: a shop asked to cancel a transaction of another shop's
   customer. *)
C13_Witness ==
    \E p \in Procs :
        /\ Answered(p)
        /\ calls[p].request.op = "cancel"
        /\ calls[p].response.detail = "UNAUTHORIZED"
        /\ customers[transactions[calls[p].request.transaction_id].customer_id].shop_id
               # calls[p].request.shop_id

(***************************************************************************)
(* Calls on different customers (SpecPair).                                *)
(***************************************************************************)
(* The customer a request of SpecPair is about. *)
Target(request) ==
    IF request.op = "cancel"
    THEN transactions[request.transaction_id].customer_id
    ELSE request.customer_id

OpeningRow(c) == CHOOSE i \in 1..2 : transactions[i].customer_id = c

RowsOf(c) == SelectSeq(transactions, LAMBDA row : row.customer_id = c)

(* What a request on customer c gives when no other call touches c: the
   answer (but for the id of the row), the balance and the rows of c. *)
ServedAlone(c, request, response) ==
    LET t == OpeningRow(c)
        open == transactions[t].amount
        balance == customers[c].current_balance
        total == request.actual_payment + request.service_amount
    IN  IF request.op = "charge"
        THEN /\ response = TransactionResponse(response.id, c, "CHARGE", total, open + total)
             /\ balance = open + total
             /\ RowsOf(c) = << transactions[t], Transaction(c, "CHARGE", total, None) >>
        ELSE IF request.op = "deduct" /\ request.amount <= open
        THEN /\ response = TransactionResponse(response.id, c, "DEDUCT", request.amount,
                                               open - request.amount)
             /\ balance = open - request.amount
             /\ RowsOf(c) = << transactions[t],
                               Transaction(c, "DEDUCT", request.amount, None) >>
        ELSE IF request.op = "deduct"
        THEN /\ response = HTTPException(400, "INSUFFICIENT_BALANCE", open)
             /\ balance = open
             /\ RowsOf(c) = << transactions[t] >>
        ELSE /\ response = TransactionResponse(response.id, c, "CANCEL", open, 0)
             /\ balance = 0
             /\ RowsOf(c) = << transactions[t], Transaction(c, "CANCEL", open, t) >>

(* C14: whatever calls on other customers have been answered or are in
   flight, a customer no answered call is about has its opening balance and
   rows, and a customer exactly one answered call is about has the answer,
   balance and rows of that call served alone. *)
C14_CustomersIndependent ==
    \A c \in {RaceCustomer, OtherCustomer} :
        LET about == {p \in Procs : Answered(p) /\ Target(calls[p].request) = c}
        IN  /\ about = {} =>
                /\ customers[c].current_balance = transactions[OpeningRow(c)].amount
                /\ RowsOf(c) = << transactions[OpeningRow(c)] >>
                /\ ~is_cancelled[OpeningRow(c)]
            /\ \A p \in about :
                   about = {p} => ServedAlone(c, calls[p].request, calls[p].response)

(* C14's case: of two calls in flight together, the deduct on one customer
   was refused for lack of funds and the charge on the other succeeded. *)
C14_Witness ==
    \E p, q \in Procs :
        /\ Answered(p) /\ Answered(q)
        /\ calls[p].request.op = "deduct"
        /\ calls[p].response.detail = "INSUFFICIENT_BALANCE"
        /\ Succeeded(q)
        /\ calls[q].request.op = "charge"
        /\ Target(calls[q].request) # Target(calls[p].request)

(***************************************************************************)
(* Sessions (SpecAuth).                                                    *)
(***************************************************************************)
(* The step answers a request of client p, who may hold an earlier answer. *)
Served(p) == calls'[p] # calls[p] /\ calls'[p].state = "done"

(* The endpoints that verify the token they are sent, and the kind of token
   each expects. *)
Verifies(op) == op \in {"charge", "deduct", "cancel", "refresh"}

ExpectedKind(op) == IF op = "refresh" THEN "refresh" ELSE "access"

Revoked(token) == token.jti # None /\ token.jti \in token_blacklist

Expired(token) == token.exp < now

(* C15: a step that changes a balance, a row or a mark serves a request
   whose bearer token is a signed access token, not expired and not revoked,
   and every customer it changes is of the shop the token names. *)
C15_LedgerBehindToken ==
    [][ledger_vars' # ledger_vars =>
          \E p \in Procs :
              /\ Served(p)
              /\ LET token == calls'[p].request.credentials
                 IN  /\ token.signed
                     /\ token.type = "access"
                     /\ ~Expired(token)
                     /\ ~Revoked(token)
                     /\ calls'[p].request.shop_id = token.sub
                     /\ \A c \in DOMAIN customers :
                            customers'[c] # customers[c] =>
                                customers[c].shop_id = token.sub]_vars

(* C17: a request that presents a token whose jti is in the revocation
   list is refused (401) by every endpoint that verifies tokens, before the
   token's expiry and after it. *)
C17_RevokedStaysRevoked ==
    [][\A p \in Procs :
          (/\ Served(p)
           /\ Verifies(calls'[p].request.op)
           /\ Revoked(calls'[p].request.credentials)) =>
              calls'[p].response.status_code = 401]_vars

(* C18: for every token a client can present, either expected kind and
   either outcome of the revocation lookup, verify_token returns the
   token's subject if the signature is valid, the token is not expired, its
   type is the expected kind and its jti is not revoked, and None
   otherwise. *)
C18_VerifyToken ==
    \A token \in Presentable, kind \in {"access", "refresh"}, lookup_ok \in BOOLEAN :
        verify_token(token, kind, lookup_ok) =
            IF /\ token.signed
               /\ ~Expired(token)
               /\ token.type = kind
               /\ ~Revoked(token)
            THEN token.sub
            ELSE None

(* C19: when a request with a genuine token of the expected kind was
   refused (so the token was expired or revoked), the next request of the
   client with the same token to an endpoint expecting that kind is refused
   too. *)
C19_TokenValidityMonotone ==
    [][\A p \in Procs :
          (/\ Served(p)
           /\ calls[p].state = "done"
           /\ Verifies(calls[p].request.op)
           /\ Verifies(calls'[p].request.op)
           /\ calls'[p].request.credentials = calls[p].request.credentials
           /\ ExpectedKind(calls'[p].request.op) = ExpectedKind(calls[p].request.op)
           /\ calls[p].request.credentials.signed
           /\ calls[p].request.credentials.type = ExpectedKind(calls[p].request.op)
           /\ calls[p].response.status_code = 401) =>
              calls'[p].response.status_code = 401]_vars

(* C20: a refresh with a signed, unexpired, unrevoked refresh token is
   answered 200 with one new access token of the same subject under a jti no
   token carries, and revokes nothing; any other refresh is answered 401 and
   issues nothing. *)
C20_RefreshKeepsRefreshToken ==
    [][\A p \in Procs :
          (Served(p) /\ calls'[p].request.op = "refresh") =>
              LET token == calls'[p].request.credentials
              IN  IF /\ token.signed
                     /\ token.type = "refresh"
                     /\ ~Expired(token)
                     /\ ~Revoked(token)
                  THEN /\ calls'[p].response.status_code = 200
                       /\ Len(tokens') = Len(tokens) + 1
                       /\ SubSeq(tokens', 1, Len(tokens)) = tokens
                       /\ LET issued == tokens'[Len(tokens')]
                          IN  /\ issued.type = "access"
                              /\ issued.sub = token.sub
                              /\ issued.signed
                              /\ issued.jti = calls'[p].response.id
                              /\ \A i \in DOMAIN tokens : tokens[i].jti # issued.jti
                       /\ token_blacklist' = token_blacklist
                  ELSE /\ calls'[p].response.status_code = 401
                       /\ tokens' = tokens]_vars

(***************************************************************************)
(* The PIN and the ledger (SpecPin).                                       *)
(***************************************************************************)
(* C16: a cancel changes the ledger only for a shop that a verify_pin has
   answered verified=true before. *)
C16_CancelBehindPin ==
    [][\A p \in Procs :
          (/\ Served(p)
           /\ calls'[p].request.op = "cancel"
           /\ ledger_vars' # ledger_vars) =>
              calls'[p].request.shop_id \in pin_verified]_vars

(***************************************************************************)
(* The PIN guard (SpecGuard).                                              *)
(***************************************************************************)
Guarded == shops[GuardShop]

(* The step in which the database function runs for client p's call. *)
RpcStep(p) == calls[p].state = "pending" /\ calls'[p].state # "pending"

(* The PIN of client p's call matches the hash that is stored now. *)
MatchesStored(p) == calls[p].request.pin = Guarded.pin_hash.bcrypt

(* The comparison client p's call made at its select is the one the stored
   hash gives now: no change_pin or reset_pin has stored another PIN since. *)
ComparisonCurrent(p) == calls[p].request.pin_correct = MatchesStored(p)

(* C21: a verify_pin that reaches the database function on an account with
   n < MAX_FAILED_ATTEMPTS failures and no lock: a wrong PIN makes the count
   n + 1; while n + 1 < MAX_FAILED_ATTEMPTS the answer is verified false with
   MAX_FAILED_ATTEMPTS - (n + 1) > 0 attempts remaining and no lock; when
   n + 1 = MAX_FAILED_ATTEMPTS the answer is verified false, 0 remaining and a
   locked_until after now, and the account is locked; a correct PIN is
   answered verified true and puts the count back to 0. *)
C21_LockOnFifthFailure ==
    [][\A p \in Procs :
        (/\ RpcStep(p)
         /\ calls[p].request.op = "verify_pin"
         /\ ComparisonCurrent(p)
         /\ ~Locked(Guarded)
         /\ Guarded.pin_failed_count < MAX_FAILED_ATTEMPTS)
        => LET n == Guarded.pin_failed_count
               response == calls'[p].response
               after == shops'[GuardShop]
           IN  /\ Guarded.pin_locked_until = None
               /\ calls'[p].state = "done"
               /\ IF MatchesStored(p)
                  THEN /\ response.verified
                       /\ after.pin_failed_count = 0
                       /\ after.pin_locked_until = None
                  ELSE /\ ~response.verified
                       /\ after.pin_failed_count = n + 1
                       /\ IF n + 1 < MAX_FAILED_ATTEMPTS
                          THEN /\ response.remaining_attempts
                                      = MAX_FAILED_ATTEMPTS - (n + 1)
                               /\ response.remaining_attempts > 0
                               /\ response.locked_until = None
                               /\ after.pin_locked_until = None
                          ELSE /\ response.remaining_attempts = 0
                               /\ response.locked_until > now
                               /\ after.pin_locked_until = response.locked_until
                               /\ now' < after.pin_locked_until]_vars

(* C21's case: the fifth wrong PIN in a row has just been answered: the
   count stands at MAX_FAILED_ATTEMPTS, the account is locked, and the caller
   was told 0 remaining and the time the lock ends. *)
C21_Witness ==
    \E p \in Procs :
        /\ calls[p].state = "done"
        /\ calls[p].request.op = "verify_pin"
        /\ ~calls[p].request.pin_correct
        /\ ~calls[p].response.verified
        /\ calls[p].response.remaining_attempts = 0
        /\ calls[p].response.locked_until = Guarded.pin_locked_until
        /\ Guarded.pin_failed_count = MAX_FAILED_ATTEMPTS
        /\ now < Guarded.pin_locked_until

(* C22: a verify_pin that is answered while the account is locked, at the
   early test or by the database function, is answered verified false,
   0 remaining and the account's locked_until, whatever the PIN, and leaves
   the shops row as it was; a verify_pin that arrives while the account is
   locked goes no further than the early test. *)
C22_LockedRefusesAll ==
    [][\A p \in Procs :
        (/\ calls'[p] # calls[p]
         /\ calls'[p].request.op = "verify_pin"
         /\ Locked(Guarded))
        => /\ calls'[p].state = "done"
           /\ ~calls'[p].response.verified
           /\ calls'[p].response.remaining_attempts = 0
           /\ calls'[p].response.locked_until = Guarded.pin_locked_until
           /\ shops' = shops]_vars

(* C22's case: the correct PIN was refused on a locked account. *)
C22_Witness ==
    \E p \in Procs :
        /\ calls[p].state = "done"
        /\ calls[p].request.op = "verify_pin"
        /\ calls[p].request.pin = Guarded.pin_hash.bcrypt
        /\ ~calls[p].response.verified
        /\ calls[p].response.remaining_attempts = 0
        /\ calls[p].response.locked_until = Guarded.pin_locked_until
        /\ now < Guarded.pin_locked_until

(* C23: a wrong PIN that reaches the database function is counted whatever
   other calls are in flight: on an unlocked account the count goes up by
   exactly one and the account is locked as soon as the count reaches
   MAX_FAILED_ATTEMPTS; on a locked account nothing changes.  So the count
   goes past MAX_FAILED_ATTEMPTS only after a lock has run out. *)
C23_NoFailureLost ==
    [][/\ Guarded.pin_failed_count >= MAX_FAILED_ATTEMPTS
            => Guarded.pin_locked_until # None
       /\ \A p \in Procs :
            (RpcStep(p) /\ ~calls[p].request.pin_correct)
            => LET n == Guarded.pin_failed_count
                   after == shops'[GuardShop]
               IN  IF Guarded.pin_locked_until # None /\ now < Guarded.pin_locked_until
                   THEN shops' = shops
                   ELSE /\ after.pin_failed_count = n + 1
                        /\ after.pin_hash = Guarded.pin_hash
                        /\ IF n + 1 >= MAX_FAILED_ATTEMPTS
                           THEN after.pin_locked_until = now + LOCK_DURATION_MINUTES
                           ELSE after.pin_locked_until = None]_vars

(* C23's case: wrong PINs of two clients in flight together at the edge of
   the lock: one has been counted as the failure that locked the account,
   the other passed the early test before that and has yet to reach the
   database function. *)
C23_Witness ==
    \E p \in Procs, q \in Procs :
        /\ p # q
        /\ calls[p].state = "pending"
        /\ ~calls[p].request.pin_correct
        /\ calls[q].state = "done"
        /\ calls[q].request.op = "verify_pin"
        /\ ~calls[q].request.pin_correct
        /\ calls[q].response.locked_until = Guarded.pin_locked_until
        /\ now < Guarded.pin_locked_until
        /\ Guarded.pin_failed_count = MAX_FAILED_ATTEMPTS

(* C24: a verify_pin is answered verified true only if its PIN matches the
   hash stored in the step in which the database function resets the
   count. *)
C24_VerifyAgainstStoredHash ==
    [][\A p \in Procs :
        (/\ RpcStep(p)
         /\ calls[p].request.op = "verify_pin"
         /\ calls'[p].response.verified)
        => MatchesStored(p)]_vars

(* C25: change_pin goes on to its update only from a verify_pin of its own
   that succeeded (the PIN compared equal and the account was not locked);
   the update stores the hash of new_pin and is answered 200; a change_pin
   whose verify_pin failed or met the lock is answered 400 and leaves the
   hash; and no other step of verify_pin or change_pin changes the hash. *)
C25_ChangeBehindVerify ==
    [][\A p \in Procs :
        LET request == calls'[p].request
        IN  (calls'[p] # calls[p] /\ request.op \in {"verify_pin", "change_pin"})
            => /\ calls'[p].state = "verified"
                    => /\ RpcStep(p)
                       /\ request.op = "change_pin"
                       /\ calls[p].request.pin_correct
                       /\ ~Locked(Guarded)
               /\ (request.op = "change_pin" /\ RpcStep(p)
                        /\ (~calls[p].request.pin_correct \/ Locked(Guarded)))
                    => /\ calls'[p].state = "done"
                       /\ calls'[p].response.status_code = 400
               /\ IF calls[p].state = "verified"
                  THEN /\ shops'[GuardShop].pin_hash.bcrypt = request.new_pin
                       /\ calls'[p].state = "done"
                       /\ calls'[p].response.status_code = 200
                  ELSE shops'[GuardShop].pin_hash = Guarded.pin_hash]_vars

(* C25's case: a change_pin has stored a new PIN after its verify_pin
   succeeded, and another change_pin was refused. *)
C25_Witness ==
    \E p \in Procs, q \in Procs :
        /\ calls[p].state = "done"
        /\ calls[p].request.op = "change_pin"
        /\ calls[p].response.status_code = 200
        /\ calls[p].request.new_pin # InitialPin
        /\ Guarded.pin_hash.bcrypt = calls[p].request.new_pin
        /\ calls[q].state = "done"
        /\ calls[q].request.op = "change_pin"
        /\ calls[q].response.status_code = 400

(* C26: the step of a reset_pin leaves the shop with the hash of new_pin,
   count 0 and no lock, whatever they were, and a verify_pin with new_pin
   run in the state it leaves is verified. *)
C26_ResetClears ==
    [][\A p \in Procs :
        (calls'[p] # calls[p] /\ calls'[p].request.op = "reset_pin")
        => LET after == shops'[GuardShop]
               new_pin == calls'[p].request.new_pin
           IN  /\ after.pin_hash.bcrypt = new_pin
               /\ after.pin_failed_count = 0
               /\ after.pin_locked_until = None
               /\ PinService_verify_pin(after, verify_pin_hash(new_pin, after.pin_hash)).verified
               /\ calls'[p].response.status_code = 200]_vars

(* C26's case: one client was told the account is locked until a time
   still to come, and the other has since verified a PIN: the lock was taken
   away by a reset. *)
C26_Witness ==
    \E p \in Procs, q \in Procs :
        /\ calls[q].state = "done"
        /\ calls[q].request.op = "verify_pin"
        /\ ~calls[q].response.verified
        /\ calls[q].response.locked_until # None
        /\ now < calls[q].response.locked_until
        /\ calls[p].state = "done"
        /\ calls[p].request.op = "verify_pin"
        /\ calls[p].response.verified
        /\ Guarded.pin_failed_count = 0
        /\ Guarded.pin_locked_until = None

(* C27: once now has reached locked_until the lock is over: a verify_pin
   that arrives is not turned away at the early test, and one that reaches
   the database function with the PIN of the stored hash is answered
   verified true and leaves count 0 and no lock; no reset_pin is needed. *)
C27_LockRunsOut ==
    [][\A p \in Procs :
        (/\ calls'[p] # calls[p]
         /\ calls'[p].request.op = "verify_pin"
         /\ Guarded.pin_locked_until # None
         /\ now >= Guarded.pin_locked_until)
        => /\ calls[p].state # "pending" => calls'[p].state = "pending"
           /\ (RpcStep(p) /\ MatchesStored(p) /\ ComparisonCurrent(p))
                => /\ calls'[p].response.verified
                   /\ shops'[GuardShop].pin_failed_count = 0
                   /\ shops'[GuardShop].pin_locked_until = None]_vars

(* C27's case: a client was told of a lock whose time has passed, and the
   other has verified the PIN since. *)
C27_Witness ==
    \E p \in Procs, q \in Procs :
        /\ calls[q].state = "done"
        /\ calls[q].request.op = "verify_pin"
        /\ calls[q].response.locked_until # None
        /\ calls[q].response.locked_until <= now
        /\ calls[p].state = "done"
        /\ calls[p].request.op = "verify_pin"
        /\ calls[p].response.verified
        /\ Guarded.pin_hash = hash_pin(InitialPin)
        /\ Guarded.pin_failed_count = 0

(***************************************************************************)
(* The rate limits (SpecLimit, SpecThrottle).                              *)
(***************************************************************************)
(* The step in which client p's login is answered. *)
LoginStep(p) == calls'[p] # calls[p] /\ calls'[p].request.op = "login"

(* The bucket's window has run out: its first attempt is more than a window
   ago, or it has none. *)
WindowOver(bucket, window) == now - bucket[2] > window

(* C28: a login that arrives while its IP's bucket holds
   login_rate_limit_attempts failures and the window has not run out is
   answered 429 with a reset time after now and leaves the bucket as it was;
   the count of a bucket never exceeds login_rate_limit_attempts; and only a
   failed login raises the count. *)
C28_WindowAdmitsAtMostN ==
    [][\A p \in Procs :
        LoginStep(p)
        => LET ip == calls'[p].request.client_ip
               bucket == _login_attempts[ip]
               response == calls'[p].response
           IN  /\ (bucket[1] >= login_rate_limit_attempts
                        /\ ~WindowOver(bucket, login_rate_limit_minutes))
                    => /\ response.status_code = 429
                       /\ response.reset_time > now
                       /\ _login_attempts' = _login_attempts
               /\ _login_attempts'[ip][1] <= login_rate_limit_attempts
               /\ _login_attempts'[ip][1] > bucket[1]
                    => response.status_code = 401]_vars

(* C29: whatever the order in which the logins of the clients behind one IP
   are served, each failed login is counted once (the count of the window
   goes up by exactly one, a window that has run out starting again at one),
   a login reaches the password check only while the window holds fewer than
   login_rate_limit_attempts failures, a successful login empties the
   bucket, a login turned away leaves it, and so does one answered 500, but
   for the reset of a window that has run out. *)
C29_LoginCountsExclusive ==
    [][\A p \in Procs :
        LoginStep(p)
        => LET ip == calls'[p].request.client_ip
               bucket == _login_attempts[ip]
               over == WindowOver(bucket, login_rate_limit_minutes)
               held == IF over THEN 0 ELSE bucket[1]
               status_code == calls'[p].response.status_code
           IN  /\ status_code \in {200, 401, 429, 500}
               /\ status_code = 500
                    => /\ held < login_rate_limit_attempts
                       /\ _login_attempts'[ip] =
                              IF over THEN <<0, _datetime_min_utc>> ELSE bucket
               /\ status_code = 401
                    => /\ held < login_rate_limit_attempts
                       /\ _login_attempts'[ip] = <<held + 1, IF over THEN now ELSE bucket[2]>>
               /\ status_code = 200
                    => /\ held < login_rate_limit_attempts
                       /\ _login_attempts'[ip][1] = 0
               /\ status_code = 429
                    => /\ held >= login_rate_limit_attempts
                       /\ _login_attempts' = _login_attempts]_vars

(* C29's case: the logins of two clients behind one IP at the edge of the
   limit: one was counted as the failure that filled the bucket, the other
   was turned away. *)
C29_Witness ==
    \E p \in Procs, q \in Procs :
        /\ calls[p].state = "done"
        /\ calls[p].request.op = "login"
        /\ calls[p].response.status_code = 401
        /\ calls[q].state = "done"
        /\ calls[q].request.op = "login"
        /\ calls[q].request.client_ip = calls[p].request.client_ip
        /\ calls[q].response.status_code = 429
        /\ _login_attempts[calls[p].request.client_ip][1] = login_rate_limit_attempts

(* The attempts of an IP counted in the interval of one window that ends
   now. *)
Trailing(times, window) == Len(SelectSeq(times, LAMBDA t : now - t < window))

(* C30: for every IP, the password reset requests let through in any
   interval of length reset_limit_window are at most reset_max_attempts. *)
C30_SlidingWindow ==
    \A ip \in ClientIps :
        Trailing(admitted["reset"][ip], reset_limit_window) <= reset_max_attempts

(* C31: a login that arrives at a bucket whose window began more than
   login_rate_limit_minutes ago is let through (it is not answered 429) and
   leaves the bucket at one attempt in a window that begins now. *)
C31_ExpiredWindowRestarts ==
    [][\A p \in Procs :
        LoginStep(p)
        => LET ip == calls'[p].request.client_ip
               bucket == _login_attempts[ip]
           IN  (bucket[2] # _datetime_min_utc
                    /\ WindowOver(bucket, login_rate_limit_minutes))
                => /\ calls'[p].response.status_code # 429
                   /\ _login_attempts'[ip] = <<1, now>>]_vars

(* C32: a login answered 200 leaves its IP's bucket at zero attempts, and a
   login is answered 429 only after login_rate_limit_attempts logins from
   its IP were answered 401 since the last one answered 200, however many
   had failed before that one. *)
C32_SuccessResetsLoginBucket ==
    [][\A p \in Procs :
        LoginStep(p)
        => LET ip == calls'[p].request.client_ip
               status_code == calls'[p].response.status_code
           IN  /\ status_code = 200
                    => _login_attempts'[ip] = <<0, _datetime_min_utc>>
               /\ status_code = 429
                    => login_streak[ip].failed >= login_rate_limit_attempts]_vars

(* C32's case: a login succeeded after some failures, fewer than the limit,
   and the IP was turned away only after login_rate_limit_attempts more. *)
C32_Witness ==
    \E p \in Procs :
        /\ calls[p].state = "done"
        /\ calls[p].request.op = "login"
        /\ calls[p].response.status_code = 429
        /\ login_streak[calls[p].request.client_ip].forgiven > 0
        /\ login_streak[calls[p].request.client_ip].forgiven < login_rate_limit_attempts
        /\ login_streak[calls[p].request.client_ip].failed = login_rate_limit_attempts

(***************************************************************************)
(* Sessions, continued (SpecAuth).                                         *)
(***************************************************************************)
(* C33: when the lookup of the revocation list raises, verify_token returns
   the subject of every token a client can present that is signed, not
   expired and of the expected kind, whether its jti is revoked or not. *)
C33_LookupFailsOpen ==
    \A token \in Presentable, kind \in {"access", "refresh"} :
        (token.signed /\ ~Expired(token) /\ token.type = kind)
            => /\ token.sub # None
               /\ verify_token(token, kind, FALSE) = token.sub

(* C33's case: a request with a revoked, unexpired token was served, which
   only a failed lookup allows. *)
C33_Witness ==
    \E p \in Procs :
        /\ calls[p].state = "done"
        /\ Verifies(calls[p].request.op)
        /\ calls[p].response.status_code = 200
        /\ Revoked(calls[p].request.credentials)
        /\ ~Expired(calls[p].request.credentials)
        /\ verify_token(calls[p].request.credentials,
                        ExpectedKind(calls[p].request.op), TRUE) = None

(* The step answers a logout of client p, who may have sent the same logout
   before (then the answer is the same, and the step shows in the list). *)
LogoutStep(p) ==
    /\ calls'[p].state = "done"
    /\ calls'[p].request.op = "logout"
    /\ calls'[p] # calls[p] \/ token_blacklist' # token_blacklist

(* C34: the revocation list changes only in a logout, by the jti of the
   token the logout presents and nothing else, and the logout leaves the
   outcome of verify_token as it was for every other token a client can
   present: the refresh token of the same login and the access tokens
   minted from it keep verifying. *)
C34_LogoutRevokesOnlyPresented ==
    [][/\ token_blacklist' # token_blacklist
            => \E p \in Procs :
                   /\ LogoutStep(p)
                   /\ token_blacklist' =
                          token_blacklist \cup {calls'[p].request.credentials.jti}
       /\ \A p \in Procs :
              LogoutStep(p)
              => \A token \in Presentable, kind \in {"access", "refresh"},
                    lookup_ok \in BOOLEAN :
                     token.jti # calls'[p].request.credentials.jti
                     => verify_token(token, kind, lookup_ok)'
                            = verify_token(token, kind, lookup_ok)]_vars

(* C34's case: the access token of a login was revoked by a logout, and the
   refresh token of that login was then exchanged for a new access token;
   both verify. *)
C34_Witness ==
    \E p \in Procs, i \in DOMAIN tokens, j \in DOMAIN tokens, k \in DOMAIN tokens :
        /\ tokens[i].type = "access"
        /\ tokens[i].jti \in token_blacklist
        /\ ~Expired(tokens[i])
        /\ tokens[j].type = "refresh"
        /\ tokens[j].sub = tokens[i].sub
        /\ tokens[j].jti = tokens[i].jti + 1
        /\ calls[p].state = "done"
        /\ calls[p].request.op = "refresh"
        /\ calls[p].request.credentials = tokens[j]
        /\ calls[p].response.status_code = 200
        /\ tokens[k].jti = calls[p].response.id
        /\ verify_token(tokens[j], "refresh", TRUE) = tokens[i].sub
        /\ verify_token(tokens[k], "access", TRUE) = tokens[i].sub
        /\ verify_token(tokens[i], "access", TRUE) = None

(***************************************************************************)
(* Deleting customers (SpecDelete).                                        *)
(***************************************************************************)
(* C35: no step removes the row of a customer whose current_balance is
   positive. *)
C35_DeleteOnlyEmpty ==
    [][\A c \in DOMAIN customers :
          c \notin DOMAIN customers' => customers[c].current_balance <= 0]_vars

(***************************************************************************)
(* The password reset (SpecReset).                                         *)
(***************************************************************************)
Resetting == reset_codes[ResetShop]

(* The step in which client p's verify_reset_code for the shop's email is
   answered. *)
VerifyReturns(p) ==
    /\ calls'[p] # calls[p]
    /\ calls'[p].state = "done"
    /\ calls'[p].request.op = "verify_reset_code"
    /\ calls'[p].request.email = RegisteredEmail

(* The code client p submitted is judged in this step and is not the code
   stored, which is there and has not run out. *)
WrongCodeJudged(p) ==
    /\ VerifyReturns(p)
    /\ calls[p].state = "comparing"
    /\ Resetting.reset_code_hash # NoHash
    /\ Resetting.reset_code_hash.bcrypt # calls[p].request.code
    /\ Resetting.reset_code_expires_at >= now

(* C36: a wrong code judged while the row holds
   RESET_MAX_FAILED_ATTEMPTS - 1 failures and no lock makes the count
   RESET_MAX_FAILED_ATTEMPTS and locks the row until
   now + RESET_LOCK_DURATION_MINUTES, and is answered with 0 attempts
   remaining and that time; a verify_reset_code answered while the lock is
   in the future fails, whatever the code, with 0 remaining and the lock's
   time, and leaves the row as it was. *)
C36_ResetLockOnFifthFailure ==
    [][\A p \in Procs :
        /\ (/\ WrongCodeJudged(p)
            /\ Resetting.reset_code_locked_until = None
            /\ Resetting.reset_code_failed_count = RESET_MAX_FAILED_ATTEMPTS - 1)
           => /\ reset_codes'[ResetShop].reset_code_failed_count
                    = RESET_MAX_FAILED_ATTEMPTS
              /\ reset_codes'[ResetShop].reset_code_locked_until
                    = now + RESET_LOCK_DURATION_MINUTES
              /\ ~calls'[p].response.verified
              /\ calls'[p].response.remaining_attempts = 0
              /\ calls'[p].response.locked_until
                    = now + RESET_LOCK_DURATION_MINUTES
        /\ (VerifyReturns(p) /\ ResetLocked(Resetting))
           => /\ ~calls'[p].response.verified
              /\ calls'[p].response.reset_token = NoToken
              /\ calls'[p].response.remaining_attempts = 0
              /\ calls'[p].response.locked_until = Resetting.reset_code_locked_until
              /\ reset_codes' = reset_codes]_vars

(* C37: a wrong code judged by a call that found a lock that had run out
   and released it, the row standing at 0 failures and no lock, stores 1
   failure and no lock and is answered with
   RESET_MAX_FAILED_ATTEMPTS - 1 attempts remaining and no locked_until. *)
C37_CountRestartsAfterLock ==
    [][\A p \in Procs :
        (/\ WrongCodeJudged(p)
         /\ calls[p].request.shop.reset_code_locked_until # None
         /\ Resetting.reset_code_failed_count = 0
         /\ Resetting.reset_code_locked_until = None)
        => /\ reset_codes'[ResetShop].reset_code_failed_count = 1
           /\ reset_codes'[ResetShop].reset_code_locked_until = None
           /\ calls'[p].response.remaining_attempts = RESET_MAX_FAILED_ATTEMPTS - 1
           /\ calls'[p].response.locked_until = None]_vars

(* C38: no issued code is redeemed twice: for each code issued, at most one
   verify_reset_code call has returned verified = true with a reset
   token. *)
C38_ResetCodeSingleUse ==
    \A issued \in DOMAIN redeemed : redeemed[issued] <= 1

(* C39: no failure is lost: a wrong code judged against the code its call
   read, the row holding no lock and the call having read none, raises the
   stored reset_code_failed_count by exactly one. *)
C39_NoLostFailure ==
    [][\A p \in Procs :
        (/\ WrongCodeJudged(p)
         /\ calls[p].request.shop.reset_code_hash = Resetting.reset_code_hash
         /\ calls[p].request.shop.reset_code_locked_until = None
         /\ Resetting.reset_code_locked_until = None)
        => reset_codes'[ResetShop].reset_code_failed_count
               = Resetting.reset_code_failed_count + 1]_vars

(* What verify_reset_code answers for an email of no shop, whatever the
   code and however often it is asked. *)
UnknownEmailAnswer ==
    PasswordResetVerifyResponse(FALSE, NoToken, RESET_MAX_FAILED_ATTEMPTS - 1, None)

(* No code submitted so far was the code issued. *)
EveryCodeWrong == \A issued \in DOMAIN redeemed : redeemed[issued] = 0

(* C40: the answers for the shop's email are the answers for an email of no
   shop: a request_password_reset that is let through is answered with the
   message and expires_in of PasswordResetResponse, and, no right code
   having been submitted, a verify_reset_code with a wrong code is answered
   as for an unknown email: not verified, no token,
   RESET_MAX_FAILED_ATTEMPTS - 1 attempts remaining, no locked_until. *)
C40_ResetFlowHidesRegistration ==
    [][\A p \in Procs :
        /\ (/\ calls'[p] # calls[p]
            /\ calls'[p].state = "done"
            /\ calls'[p].request.op = "request_password_reset"
            /\ calls'[p].request.email = RegisteredEmail
            /\ calls'[p].response.status_code = 200)
           => calls'[p].response = PasswordResetResponse
        /\ (/\ VerifyReturns(p)
            /\ EveryCodeWrong
            /\ \/ Resetting.reset_code_hash = NoHash
               \/ Resetting.reset_code_hash.bcrypt # calls'[p].request.code)
           => calls'[p].response = UnknownEmailAnswer]_vars

====
